---- MODULE Spec2Model ----
(***************************************************************************)
(* A model of the treecode / binary tree / bezier curve core of wrinkles   *)
(* (src-c).  A TreecodeWord (uint64_t) is modelled as the set of the bit   *)
(* positions 0..63 that are set, so that 64-bit values never have to be    *)
(* held in a TLC integer: 0 is {}, TREECODE_MARKER is {0}, x & m is the    *)
(* intersection, x | m the union, x ^ m the symmetric difference.          *)
(***************************************************************************)
EXTENDS Integers, Sequences, FiniteSets, TLC

VARIABLES
    tcs,        \* the treecodes under test: slot -> Treecode struct
    tc_steps,   \* history: slot -> the steps of the appends that returned true
    tc_failed,  \* history: slot -> an append on it returned false
    tree,       \* the BinaryTree struct
    tree_puts,  \* history: label -> index given by the latest put of the label
    path_out,   \* the latest binary_tree_path call and what it returned
    curve,      \* the BezierCurve under test
    curve_out,  \* the latest curve operation and what it returned
    call_args,  \* the operands the pure functions are called with
    call_frames,\* the frames of a recursive call in progress, innermost last
    call_out    \* the latest call of a pure function and what it returned

vars == <<tcs, tc_steps, tc_failed, tree, tree_puts, path_out, curve, curve_out,
         call_args, call_frames, call_out>>

tcVars == <<tcs, tc_steps, tc_failed>>
treeVars == <<tree, tree_puts, path_out>>
curveVars == <<curve, curve_out>>
callVars == <<call_args, call_frames, call_out>>

NoCall == [op |-> "none"]
CallIdle == call_args = <<>> /\ call_frames = <<>> /\ call_out = NoCall

(***************************************************************************)
(* Bounds of the model.                                                    *)
(***************************************************************************)
\* appends explored on a treecode slot beyond the code it starts with
MaxExtra == 3

\* nodes put into a tree that starts empty
MaxPuts == 3

\* nodes put into a tree that starts as a chain of left children
MaxChainPuts == 1

\* segments of a curve
MaxSegments == 3

\* numerators of a rational operand run from -MaxNum to MaxNum
MaxNum == 3

\* denominators of a rational operand run from 0 to MaxDen
MaxDen == 4

\* ordinates of an interval run from -1 to MaxOrdinate
MaxOrdinate == 3

\* offsets and ordinates of a transform run from -MaxHalves to MaxHalves
\* halves
MaxHalves == 2

\* ordinates in the list a curve is split at
MaxOrdinateCount == 3

\* allocations of one call of which one may fail
MaxAllocs == 3

\* calls of bezier_segment_linearize in progress at once
MaxFrames == 40

\* start and end counts of an ot_interval_t run from -MaxCount to MaxCount
MaxCount == 1

\* control values of a cubic run from 0 to MaxControl times four ordinates
MaxControl == 3

\* depth of the deepest node of the chain of left children a tree can start
\* with: one whose treecode has filled its first word
ChainDepth == 64

\* lengths of the runs of equal steps a treecode slot starts with; they put
\* the explored appends just before each word boundary (64, 128) and each
\* growth of the backing array (64, 256)
SeedLens == {0, 62, 126, 254}

Slots == {1, 2}
Steps == {0, 1}

SetMax(S) == CHOOSE x \in S : \A y \in S : y <= x

Pow2(n) == IF n = 0 THEN 1 ELSE IF n = 1 THEN 2 ELSE IF n = 2 THEN 4
           ELSE IF n = 3 THEN 8 ELSE IF n = 4 THEN 16 ELSE IF n = 5 THEN 32
           ELSE IF n = 6 THEN 64 ELSE 128

(***************************************************************************)
(* treecode.h                                                              *)
(***************************************************************************)
TREECODE_WORD_BIT_COUNT == 64
TREECODE_LEFT == 0
TREECODE_RIGHT == 1
TREECODE_MARKER == {0}
WordZero == {}

treecode_clz(x) ==
    IF x = WordZero THEN TREECODE_WORD_BIT_COUNT
    ELSE (TREECODE_WORD_BIT_COUNT - 1) - SetMax(x)

\* word | (1 << bit_index) or word & ~(1 << bit_index)
treecode_set_bit_in_word(word, bit_index, val) ==
    IF val = TREECODE_RIGHT
    THEN {b \in 0..(TREECODE_WORD_BIT_COUNT - 1) : b \in word \/ b = bit_index}
    ELSE {b \in 0..(TREECODE_WORD_BIT_COUNT - 1) : b \in word /\ b /= bit_index}

treecode_word_append(target_word, new_branch) ==
    LET significant_bits == (TREECODE_WORD_BIT_COUNT - 1) - treecode_clz(target_word)
        new_val == treecode_set_bit_in_word(target_word, significant_bits, new_branch)
    IN  IF significant_bits = TREECODE_WORD_BIT_COUNT - 1
        THEN new_val
        ELSE treecode_set_bit_in_word(new_val, significant_bits + 1, TREECODE_RIGHT)

treecode_word_is_prefix_of(lhs, rhs) ==
    IF lhs = rhs \/ lhs = TREECODE_MARKER THEN TRUE
    ELSE IF lhs = WordZero \/ rhs = WordZero THEN FALSE
    ELSE LET lhs_leading_zeros == treecode_clz(lhs) + 1
             mask == 0 .. ((TREECODE_WORD_BIT_COUNT - lhs_leading_zeros) - 1)
         IN  (lhs \cap mask) = (rhs \cap mask)

\* words[i] of the C array is words[i + 1] of the sequence
Word(self, i) == self.words[i + 1]

treecode_init ==
    [code_length |-> 0, words |-> <<TREECODE_MARKER>>, word_capacity |-> 1]

treecode_clone(self) ==
    [code_length |-> self.code_length,
     words |-> [i \in 1..self.word_capacity |-> self.words[i]],
     word_capacity |-> self.word_capacity]

\* treecode_realloc without its memset: the new words keep what the
\* allocator left in them (here: every bit set)
treecode_realloc_without_memset(self, new_word_capacity) ==
    [self EXCEPT
        !.words = [i \in 1..new_word_capacity |->
                      IF i <= self.word_capacity THEN self.words[i]
                      ELSE 0..(TREECODE_WORD_BIT_COUNT - 1)],
        !.word_capacity = new_word_capacity]

treecode_realloc(self, new_word_capacity) ==
    [self EXCEPT
        !.words = [i \in 1..new_word_capacity |->
                      IF i <= self.word_capacity THEN self.words[i] ELSE WordZero],
        !.word_capacity = new_word_capacity]

\* treecode_append counting the step only on its single-word path: past
\* the first word code_length stays what it was
treecode_append_uncounted(self, new_branch, alloc_ok) ==
    LET current_code_length == self.code_length
        new_marker_bit_index == self.code_length + 1
        s1 == [self EXCEPT !.code_length = new_marker_bit_index]
        last_allocated_index == (self.word_capacity * TREECODE_WORD_BIT_COUNT) - 1
        need == new_marker_bit_index > last_allocated_index
        s2 == IF need THEN treecode_realloc(self, self.word_capacity + 3) ELSE self
        new_marker_word == new_marker_bit_index \div TREECODE_WORD_BIT_COUNT
        new_data_word == current_code_length \div TREECODE_WORD_BIT_COUNT
    IN  IF new_marker_bit_index < TREECODE_WORD_BIT_COUNT
        THEN [ret |-> TRUE,
              self |-> [s1 EXCEPT !.words[1] = treecode_word_append(@, new_branch)]]
        ELSE IF need /\ ~alloc_ok
        THEN [ret |-> FALSE, self |-> self]
        ELSE IF new_marker_word = new_data_word
        THEN [ret |-> TRUE,
              self |-> [s2 EXCEPT !.words[new_marker_word + 1] =
                                      treecode_word_append(@, new_branch)]]
        ELSE [ret |-> TRUE,
              self |-> [s2 EXCEPT
                  !.words[new_marker_word + 1] = TREECODE_MARKER,
                  !.words[new_data_word + 1] =
                      treecode_set_bit_in_word(@, TREECODE_WORD_BIT_COUNT - 1, new_branch)]]

\* the Treecode after treecode_append and the value the call returns;
\* alloc_ok is whether the allocator's realloc, if called, returns memory
treecode_append(self, new_branch, alloc_ok) ==
    LET current_code_length == self.code_length
        new_marker_bit_index == self.code_length + 1
        s1 == [self EXCEPT !.code_length = new_marker_bit_index]
        last_allocated_index == (self.word_capacity * TREECODE_WORD_BIT_COUNT) - 1
        need == new_marker_bit_index > last_allocated_index
        s2 == IF need THEN treecode_realloc(s1, s1.word_capacity + 3) ELSE s1
        new_marker_word == new_marker_bit_index \div TREECODE_WORD_BIT_COUNT
        new_data_word == current_code_length \div TREECODE_WORD_BIT_COUNT
    IN  IF new_marker_bit_index < TREECODE_WORD_BIT_COUNT
        THEN [ret |-> TRUE,
              self |-> [s1 EXCEPT !.words[1] = treecode_word_append(@, new_branch)]]
        ELSE IF need /\ ~alloc_ok
        THEN [ret |-> FALSE, self |-> s1]
        ELSE IF new_marker_word = new_data_word
        THEN [ret |-> TRUE,
              self |-> [s2 EXCEPT !.words[new_marker_word + 1] =
                                      treecode_word_append(@, new_branch)]]
        ELSE [ret |-> TRUE,
              self |-> [s2 EXCEPT
                  !.words[new_marker_word + 1] = TREECODE_MARKER,
                  !.words[new_data_word + 1] =
                      treecode_set_bit_in_word(@, TREECODE_WORD_BIT_COUNT - 1, new_branch)]]

treecode_is_prefix_of(self, rhs) ==
    LET len_self == self.code_length
        len_rhs == rhs.code_length
        greatest_nonzero_index == len_self \div TREECODE_WORD_BIT_COUNT
    IN  IF len_self = 0 THEN TRUE
        ELSE IF len_rhs = 0 \/ len_rhs < len_self THEN FALSE
        ELSE IF len_self < TREECODE_WORD_BIT_COUNT
        THEN treecode_word_is_prefix_of(Word(self, 0), Word(rhs, 0))
        ELSE IF \E i \in 0..(greatest_nonzero_index - 1) : Word(self, i) /= Word(rhs, i)
        THEN FALSE
        ELSE treecode_word_is_prefix_of(Word(self, greatest_nonzero_index),
                                        Word(rhs, greatest_nonzero_index))

Min2(a, b) == IF a < b THEN a ELSE b

\* treecode_eql comparing the first word only
treecode_eql_first_word_only(self, rhs) ==
    IF self.code_length /= rhs.code_length THEN FALSE
    ELSE Word(self, 0) = Word(rhs, 0)

treecode_eql(self, rhs) ==
    IF self.code_length /= rhs.code_length THEN FALSE
    ELSE LET end_word == Min2(Min2(self.code_length \div TREECODE_WORD_BIT_COUNT + 1,
                                   self.word_capacity), rhs.word_capacity)
         IN  \A i \in 0..(end_word - 1) : Word(self, i) = Word(rhs, i)

(***************************************************************************)
(* 64-bit arithmetic of treecode_hash.  A uint64_t is a set of bit         *)
(* positions; for a multiplication it is cut into eight 8-bit limbs (limb  *)
(* 1 the least significant), multiplied limb by limb, and the product is   *)
(* truncated to 64 bits as the C multiplication is.                        *)
(***************************************************************************)
Limb(w, k) ==
    LET b(i) == IF (8 * k + i) \in w THEN 1 ELSE 0
    IN  b(0) + 2 * b(1) + 4 * b(2) + 8 * b(3) + 16 * b(4) + 32 * b(5)
        + 64 * b(6) + 128 * b(7)

Limbs(w) == <<Limb(w, 0), Limb(w, 1), Limb(w, 2), Limb(w, 3),
              Limb(w, 4), Limb(w, 5), Limb(w, 6), Limb(w, 7)>>

Bits(l) == {i \in 0..63 : (l[(i \div 8) + 1] \div Pow2(i % 8)) % 2 = 1}

\* the low 64 bits of x * y; column k of the long multiplication with the
\* carry of column k - 1
Mul64(x, y) ==
    LET c1 == x[1] * y[1]
        c2 == x[1] * y[2] + x[2] * y[1] + (c1 \div 256)
        c3 == x[1] * y[3] + x[2] * y[2] + x[3] * y[1] + (c2 \div 256)
        c4 == x[1] * y[4] + x[2] * y[3] + x[3] * y[2] + x[4] * y[1] + (c3 \div 256)
        c5 == x[1] * y[5] + x[2] * y[4] + x[3] * y[3] + x[4] * y[2] + x[5] * y[1] + (c4 \div 256)
        c6 == x[1] * y[6] + x[2] * y[5] + x[3] * y[4] + x[4] * y[3] + x[5] * y[2] + x[6] * y[1] + (c5 \div 256)
        c7 == x[1] * y[7] + x[2] * y[6] + x[3] * y[5] + x[4] * y[4] + x[5] * y[3] + x[6] * y[2] + x[7] * y[1] + (c6 \div 256)
        c8 == x[1] * y[8] + x[2] * y[7] + x[3] * y[6] + x[4] * y[5] + x[5] * y[4] + x[6] * y[3] + x[7] * y[2] + x[8] * y[1] + (c7 \div 256)
    IN  <<c1 % 256, c2 % 256, c3 % 256, c4 % 256, c5 % 256, c6 % 256, c7 % 256, c8 % 256>>

Xor64(a, b) == {i \in 0..63 : (i \in a) /= (i \in b)}

\* (hash << 27) | (hash >> 37)
Rotl27(h) == {i \in 0..63 : IF i >= 27 THEN (i - 27) \in h ELSE (i + 37) \in h}

\* 0x9e3779b97f4a7c15
HashIndexMul == <<21, 124, 74, 127, 185, 121, 55, 158>>
\* 0xbf58476d1ce4e5b9
HashWordMul == <<185, 229, 228, 28, 109, 71, 88, 191>>

\* the limbs of a small word index
SmallLimbs(n) == <<n % 256, n \div 256, 0, 0, 0, 0, 0, 0>>

\* one round of the loop of treecode_hash, for word index i
treecode_hash_step(hash, i, word) ==
    IF word /= WordZero
    THEN Rotl27(Xor64(Xor64(hash, Bits(Mul64(SmallLimbs(i + 1), HashIndexMul))),
                      Bits(Mul64(Limbs(word), HashWordMul))))
    ELSE hash

treecode_hash(self) ==
    LET h[n \in 0..self.word_capacity] ==
            IF n = 0 THEN WordZero
            ELSE treecode_hash_step(h[n - 1], n - 1, Word(self, n - 1))
    IN  h[self.word_capacity]

\* the step read by treecode_next_step_towards; the read of dest->words is
\* inside the array only when InBounds holds
next_step_in_bounds(self, dest) ==
    (self.code_length \div TREECODE_WORD_BIT_COUNT) < dest.word_capacity

treecode_next_step_towards(self, dest) ==
    LET self_len == self.code_length
        self_len_word == self_len \div TREECODE_WORD_BIT_COUNT
        self_len_pos_local == self_len % TREECODE_WORD_BIT_COUNT
        target_word == Word(dest, self_len_word)
        bit_set == (target_word \cap {self_len_pos_local}) /= WordZero
    IN  IF bit_set THEN TREECODE_RIGHT ELSE TREECODE_LEFT

treecode_path_exists(fst, snd) ==
    \/ treecode_eql(fst, snd)
    \/ treecode_is_prefix_of(fst, snd)
    \/ treecode_is_prefix_of(snd, fst)

(***************************************************************************)
(* The treecode state machine: two treecodes, each started from            *)
(* treecode_init by a run of equal appends, then grown by single appends   *)
(* and copied over each other by treecode_clone.                           *)
(***************************************************************************)
Run(n, d) == [i \in 1..n |-> d]

\* the Treecode after n successful treecode_append calls of step d on t.
\* The run is cut in halves, and the first half is computed before the
\* second is started, to keep the evaluation shallow.
RECURSIVE AppendRun(_, _, _)
AppendRun(t, d, n) ==
    IF n = 0 THEN t
    ELSE IF n = 1 THEN treecode_append(t, d, TRUE).self
    ELSE LET half == AppendRun(t, d, n \div 2)
         IN  IF half.word_capacity > 0 /\ half.words = half.words
             THEN AppendRun(half, d, n - (n \div 2))
             ELSE half

\* the Treecode after appending the steps of the run s to treecode_init
AppendAll(s) == IF Len(s) = 0 THEN treecode_init ELSE AppendRun(treecode_init, s[1], Len(s))

SeedSteps == {Run(n, d) : n \in SeedLens, d \in Steps}

SeedLenOf(s) == SetMax({n \in SeedLens : n <= Len(s)})

TcInit ==
    /\ \E sa \in SeedSteps, sb \in SeedSteps :
          /\ tcs = [k \in Slots |-> AppendAll(IF k = 1 THEN sa ELSE sb)]
          /\ tc_steps = [k \in Slots |-> IF k = 1 THEN sa ELSE sb]
    /\ tc_failed = [k \in Slots |-> FALSE]

\* treecode_append(&tcs[k], allocator, branch).  A caller that was told the
\* append failed does not append to that treecode again.
TcAppend(k, branch, alloc_ok) ==
    /\ ~tc_failed[k]
    /\ Len(tc_steps[k]) < SeedLenOf(tc_steps[k]) + MaxExtra
    /\ LET r == treecode_append(tcs[k], branch, alloc_ok)
       IN  /\ tcs' = [tcs EXCEPT ![k] = r.self]
           /\ tc_steps' = [tc_steps EXCEPT ![k] = IF r.ret THEN Append(@, branch) ELSE @]
           /\ tc_failed' = [tc_failed EXCEPT ![k] = ~r.ret]
    /\ UNCHANGED <<treeVars, curveVars, callVars>>

\* treecode_clone(&tcs[src], &tcs[dst], allocator)
TcClone(src, dst) ==
    /\ src /= dst
    /\ tcs' = [tcs EXCEPT ![dst] = treecode_clone(tcs[src])]
    /\ tc_steps' = [tc_steps EXCEPT ![dst] = tc_steps[src]]
    /\ tc_failed' = [tc_failed EXCEPT ![dst] = tc_failed[src]]
    /\ UNCHANGED <<treeVars, curveVars, callVars>>

TcNext ==
    \/ \E k \in Slots, branch \in Steps, alloc_ok \in BOOLEAN : TcAppend(k, branch, alloc_ok)
    \/ \E src \in Slots, dst \in Slots : TcClone(src, dst)


(***************************************************************************)
(* Treecode properties                                                     *)
(***************************************************************************)
IsStepPrefix(s, t) == Len(s) <= Len(t) /\ \A i \in 1..Len(s) : s[i] = t[i]

\* the bit positions set anywhere in the backing array, word i counting from 64 * i
AllBits(self) ==
    {TREECODE_WORD_BIT_COUNT * i + b : i \in 0..(self.word_capacity - 1), b \in 0..63}
        \cap UNION {{TREECODE_WORD_BIT_COUNT * i + b : b \in Word(self, i)} :
                        i \in 0..(self.word_capacity - 1)}

BothBuiltByAppends == ~tc_failed[1] /\ ~tc_failed[2]

C1_IsPrefixIffStepPrefix ==
    \A a \in Slots, b \in Slots :
        (~tc_failed[a] /\ ~tc_failed[b]) =>
            (treecode_is_prefix_of(tcs[a], tcs[b]) <=> IsStepPrefix(tc_steps[a], tc_steps[b]))

\* C2: after n appends that all succeeded, code_length is n.
C2_CodeLengthIsAppendCount ==
    \A k \in Slots : ~tc_failed[k] => tcs[k].code_length = Len(tc_steps[k])

\* a treecode longer than a word, of both kinds of step, with its count
C2_Witness ==
    \E k \in Slots :
        /\ ~tc_failed[k]
        /\ Len(tc_steps[k]) > TREECODE_WORD_BIT_COUNT
        /\ \E i, j \in 1..Len(tc_steps[k]) : tc_steps[k][i] /= tc_steps[k][j]
        /\ tcs[k].code_length = Len(tc_steps[k])

\* C3: after appends that all succeeded the marker bit sits at bit index
\* code_length of the backing array, no bit above it is set, and every word
\* beyond the marker's word is zero.
C3_MarkerInvariant ==
    \A k \in Slots : ~tc_failed[k] =>
        LET t == tcs[k]
            n == t.code_length
        IN  /\ n \div TREECODE_WORD_BIT_COUNT < t.word_capacity
            /\ (n % TREECODE_WORD_BIT_COUNT) \in Word(t, n \div TREECODE_WORD_BIT_COUNT)
            /\ \A b \in AllBits(t) : b <= n
            /\ \A i \in 0..(t.word_capacity - 1) :
                   i > n \div TREECODE_WORD_BIT_COUNT => Word(t, i) = WordZero

\* a treecode whose marker has just moved into the third of four words
C3_Witness ==
    \E k \in Slots :
        /\ ~tc_failed[k]
        /\ tcs[k].code_length = 2 * TREECODE_WORD_BIT_COUNT
        /\ tcs[k].word_capacity = 4
        /\ Word(tcs[k], 2) = TREECODE_MARKER
        /\ Word(tcs[k], 3) = WordZero

\* C30: when treecode_append returns false because the array of words could
\* not be grown, the treecode is as it was before the call: the same
\* code_length, the same word_capacity and the same words.
C30_FailedAppendLeavesTreecode ==
    [][\A k \in Slots, branch \in Steps :
          (TcAppend(k, branch, FALSE) /\ tc_failed'[k]) =>
              /\ tcs'[k].code_length = tcs[k].code_length
              /\ tcs'[k].word_capacity = tcs[k].word_capacity
              /\ tcs'[k].words = tcs[k].words]_vars

\* C4: treecodes that compare equal hash equal.
C4_EqlImpliesHashEqual ==
    \A a \in Slots, b \in Slots :
        treecode_eql(tcs[a], tcs[b]) => treecode_hash(tcs[a]) = treecode_hash(tcs[b])

(***************************************************************************)
(* binary_tree.h.  The arrays nodes and tree_data are sequences holding    *)
(* their first node_count entries (entry i of C at position i + 1); the    *)
(* map arrays hold all map_capacity slots.                                 *)
(***************************************************************************)
binary_tree_init ==
    [nodes |-> <<>>, node_count |-> 0, node_capacity |-> 0,
     tree_data |-> <<>>, tree_data_count |-> 0, tree_data_capacity |-> 0,
     map_keys |-> <<>>, map_values |-> <<>>, map_count |-> 0, map_capacity |-> 0]

binary_tree_node_hash(label) == label

SetMin(S) == CHOOSE x \in S : \A y \in S : x <= y

\* the value binary_tree_map_get returns and the index it writes
binary_tree_map_get(t, key) ==
    IF t.map_count = 0 THEN [found |-> FALSE, value |-> 0]
    ELSE LET start == key % t.map_capacity
             idx(i) == ((start + i) % t.map_capacity) + 1
             stops == {i \in 0..(t.map_capacity - 1) :
                          \/ t.map_keys[idx(i)] = key
                          \/ (t.map_keys[idx(i)] = 0 /\ i > 0)}
         IN  IF stops = {} THEN [found |-> FALSE, value |-> 0]
             ELSE LET i0 == SetMin(stops)
                  IN  IF t.map_keys[idx(i0)] = key
                      THEN [found |-> TRUE, value |-> t.map_values[idx(i0)]]
                      ELSE [found |-> FALSE, value |-> 0]

\* one round of the rehash loop: entry i of the old arrays is copied to the
\* first empty slot of the new arrays at or after its start slot
RehashEntry(new, old_keys, old_values, i, new_capacity) ==
    IF old_keys[i + 1] = 0 THEN new
    ELSE LET start == old_keys[i + 1] % new_capacity
             idx(j) == ((start + j) % new_capacity) + 1
             free == {j \in 0..(new_capacity - 1) : new.keys[idx(j)] = 0}
         IN  IF free = {} THEN new
             ELSE [keys |-> [new.keys EXCEPT ![idx(SetMin(free))] = old_keys[i + 1]],
                   values |-> [new.values EXCEPT ![idx(SetMin(free))] = old_values[i + 1]]]

\* rounds lo .. hi - 1 of the rehash loop (cut in halves, the first half
\* computed before the second, to keep the evaluation shallow)
RECURSIVE RehashRange(_, _, _, _, _, _)
RehashRange(new, old_keys, old_values, lo, hi, new_capacity) ==
    IF lo >= hi THEN new
    ELSE IF hi = lo + 1 THEN RehashEntry(new, old_keys, old_values, lo, new_capacity)
    ELSE LET mid == (lo + hi) \div 2
             half == RehashRange(new, old_keys, old_values, lo, mid, new_capacity)
         IN  IF half.keys = half.keys /\ half.values = half.values
             THEN RehashRange(half, old_keys, old_values, mid, hi, new_capacity)
             ELSE half

Zeros(n) == [i \in 1..n |-> 0]

MapNeedsGrow(t) == t.map_count >= (t.map_capacity * 7) \div 10

\* the tree after binary_tree_map_put and the value it returns; alloc_ok is
\* whether the allocator returns memory for the grown arrays
binary_tree_map_put(t, key, value, alloc_ok) ==
    IF MapNeedsGrow(t) /\ ~alloc_ok THEN [ret |-> FALSE, tree |-> t]
    ELSE
    LET new_capacity == IF t.map_capacity = 0 THEN 16 ELSE t.map_capacity * 2
        rehashed == RehashRange([keys |-> Zeros(new_capacity), values |-> Zeros(new_capacity)],
                                t.map_keys, t.map_values, 0, t.map_capacity, new_capacity)
        g == IF MapNeedsGrow(t)
             THEN [t EXCEPT !.map_keys = rehashed.keys, !.map_values = rehashed.values,
                            !.map_capacity = new_capacity]
             ELSE t
        start == key % g.map_capacity
        idx(i) == ((start + i) % g.map_capacity) + 1
        slots == {i \in 0..(g.map_capacity - 1) :
                     g.map_keys[idx(i)] = 0 \/ g.map_keys[idx(i)] = key}
    IN  IF slots = {} THEN [ret |-> FALSE, tree |-> g]
        ELSE LET i0 == SetMin(slots)
             IN  [ret |-> TRUE,
                  tree |-> [g EXCEPT
                      !.map_count = IF g.map_keys[idx(i0)] = 0 THEN @ + 1 ELSE @,
                      !.map_keys[idx(i0)] = key,
                      !.map_values[idx(i0)] = value]]

RECURSIVE GrownCapacity(_, _)
GrownCapacity(capacity, needed) ==
    IF capacity >= needed THEN capacity ELSE GrownCapacity(capacity * 2, needed)

\* the tree after binary_tree_ensure_capacity and the value it returns;
\* nodes_ok and data_ok are whether the realloc of the nodes array and of
\* the tree_data array, if called, return memory
binary_tree_ensure_capacity(t, additional, nodes_ok, data_ok) ==
    LET needed == t.node_count + additional
        t1 == IF needed > t.node_capacity
              THEN [t EXCEPT !.node_capacity =
                        GrownCapacity(IF @ = 0 THEN 16 ELSE @, needed)]
              ELSE t
        t2 == IF needed > t1.tree_data_capacity
              THEN [t1 EXCEPT !.tree_data_capacity =
                        GrownCapacity(IF @ = 0 THEN 16 ELSE @, needed)]
              ELSE t1
    IN  IF needed > t.node_capacity /\ ~nodes_ok
        THEN [ret |-> FALSE, tree |-> t]
        ELSE IF needed > t1.tree_data_capacity /\ ~data_ok
        THEN [ret |-> FALSE, tree |-> t1]
        ELSE [ret |-> TRUE, tree |-> t2]

\* The allocation of a binary_tree_put call that fails, if any
PutFailures == {"none", "nodes", "data", "clone", "map"}

\* the tree after binary_tree_put(tree, node, tree_data) and the value it
\* returns.  data is the caller's BinaryTreeData (code, parent_index,
\* has_parent and cleared child fields); oob_step is the step that a read
\* outside the child's words makes treecode_next_step_towards return.
binary_tree_put(t, label, data, fail, oob_step) ==
    LET ec == binary_tree_ensure_capacity(t, 1, fail /= "nodes", fail /= "data")
        t0 == ec.tree
        code_copy == treecode_clone(data.code)
        new_index == t0.node_count
        stored == [data EXCEPT !.code = code_copy]
        t1 == [t0 EXCEPT !.nodes = Append(@, label),
                         !.node_count = @ + 1,
                         !.tree_data = Append(@, stored),
                         !.tree_data_count = @ + 1]
        mp == binary_tree_map_put(t1, binary_tree_node_hash(label), new_index, fail /= "map")
        t2 == mp.tree
        parent_index == data.parent_index
        parent_code == t2.tree_data[parent_index + 1].code
        dir == IF next_step_in_bounds(parent_code, code_copy)
               THEN treecode_next_step_towards(parent_code, code_copy)
               ELSE oob_step
        t3 == [t2 EXCEPT
                  !.tree_data[parent_index + 1].child_indices[dir + 1] = new_index,
                  !.tree_data[parent_index + 1].has_children[dir + 1] = TRUE]
    IN  IF ~ec.ret THEN [ret |-> FALSE, tree |-> t0]
        ELSE IF fail = "clone" THEN [ret |-> FALSE, tree |-> t0]
        ELSE IF ~mp.ret THEN [ret |-> FALSE, tree |-> t2]
        ELSE IF data.has_parent THEN [ret |-> TRUE, tree |-> t3]
        ELSE [ret |-> TRUE, tree |-> t2]

binary_tree_index_for_node(t, label) ==
    binary_tree_map_get(t, binary_tree_node_hash(label))


\* the endpoints after binary_tree_sort_endpoints and the value it returns
binary_tree_sort_endpoints(t, endpoints) ==
    LET source_code == t.tree_data[endpoints.source + 1].code
        dest_code == t.tree_data[endpoints.destination + 1].code
    IN  IF ~treecode_path_exists(source_code, dest_code)
        THEN [swapped |-> FALSE, endpoints |-> endpoints]
        ELSE IF source_code.code_length > dest_code.code_length
        THEN [swapped |-> TRUE,
              endpoints |-> [source |-> endpoints.destination,
                             destination |-> endpoints.source]]
        ELSE [swapped |-> FALSE, endpoints |-> endpoints]

\* one round of the walk of binary_tree_path
PathStep(t, current) ==
    IF t.tree_data[current + 1].has_parent
    THEN t.tree_data[current + 1].parent_index
    ELSE current

\* current after k rounds of the walk (cut in halves to keep the
\* evaluation shallow)
RECURSIVE PathWalk(_, _, _)
PathWalk(t, current, k) ==
    IF k = 0 THEN current
    ELSE IF k = 1 THEN PathStep(t, current)
    ELSE LET half == PathWalk(t, current, k \div 2)
         IN  IF half >= 0 THEN PathWalk(t, half, k - (k \div 2)) ELSE half

Reverse(p) == [i \in 1..Len(p) |-> p[Len(p) + 1 - i]]

\* length of binary_tree_path, before it wraps around as a size_t
PathLength(t, endpoints) ==
    LET sorted == binary_tree_sort_endpoints(t, endpoints).endpoints
    IN  t.tree_data[sorted.destination + 1].code.code_length
        - t.tree_data[sorted.source + 1].code.code_length + 1

\* What binary_tree_path returns: "ok" with the array and *out_length,
\* "null" for NULL.  length is a size_t: when the sorted destination is the
\* shallower node the subtraction wraps around.  A wrapped length of more
\* than 0 asks the allocator for more memory than exists, and it returns
\* NULL; a length of 0 gets either NULL or a block of no bytes, into which
\* path[0] and the rounds of the walk are written out of bounds ("ub").
\* alloc_ok is whether an allocation that can succeed does; zero_alloc is
\* whether an allocation of 0 bytes returns a block.
binary_tree_path(t, endpoints, alloc_ok, zero_alloc) ==
    LET se == binary_tree_sort_endpoints(t, endpoints)
        sorted == se.endpoints
        length == PathLength(t, endpoints)
        filled == [j \in 1..length |->
                      IF j = 1 THEN sorted.source
                      ELSE PathWalk(t, sorted.destination, length - j)]
        path == IF se.swapped THEN Reverse(filled) ELSE filled
    IN  IF length < 0 THEN [status |-> "null", path |-> <<>>]
        ELSE IF length = 0
        THEN [status |-> IF zero_alloc THEN "ub" ELSE "null", path |-> <<>>]
        ELSE IF ~alloc_ok THEN [status |-> "null", path |-> <<>>]
        ELSE [status |-> "ok", path |-> path]

(***************************************************************************)
(* The binary tree state machine: a tree that starts empty, or as a chain  *)
(* of left children put root first (A, then its left child, ...), to which *)
(* binary_tree_put adds nodes and on which binary_tree_path is called.     *)
(***************************************************************************)
NoPath == [called |-> FALSE]

\* the labels given to the nodes put; NODE_LABEL_A is 0
PutLabels == {0, 1}

\* the labels looked up
Labels == 0..(ChainDepth + 2)

NeverPut == -1

\* the caller's BinaryTreeData for a node without children
NodeData(code, has_parent, parent_index) ==
    [code |-> code, parent_index |-> parent_index, has_parent |-> has_parent,
     child_indices |-> <<0, 0>>, has_children |-> <<FALSE, FALSE>>]

\* node i of the chain: label i + 1, treecode of i left steps, parent i - 1
ChainPut(acc, i) ==
    LET code == IF i = 0 THEN treecode_init
                ELSE treecode_append(acc.code, TREECODE_LEFT, TRUE).self
        data == NodeData(code, i > 0, IF i > 0 THEN i - 1 ELSE 0)
    IN  [code |-> code,
         tree |-> binary_tree_put(acc.tree, i + 1, data, "none", TREECODE_LEFT).tree]

RECURSIVE ChainRange(_, _, _)
ChainRange(acc, lo, hi) ==
    IF lo >= hi THEN acc
    ELSE IF hi = lo + 1 THEN ChainPut(acc, lo)
    ELSE LET mid == (lo + hi) \div 2
             half == ChainRange(acc, lo, mid)
         IN  IF half.tree = half.tree /\ half.code = half.code
             THEN ChainRange(half, mid, hi)
             ELSE half

\* the tree after the puts of the nodes of depth 0 .. ChainDepth of the chain
ChainTree == ChainRange([code |-> treecode_init, tree |-> binary_tree_init],
                        0, ChainDepth + 1).tree

SeededCount(t) == IF t.node_count > ChainDepth THEN ChainDepth + 1 ELSE 0
PutsAllowed(t) == IF t.node_count > ChainDepth THEN MaxChainPuts ELSE MaxPuts

\* the nodes a put chooses its parent among, and a path its endpoints
ParentChoices(t) == {0, 1, t.node_count - 2, t.node_count - 1} \cap 0..(t.node_count - 1)
EndpointChoices(t) ==
    {0, 1, 2, 3, t.node_count - 2, t.node_count - 1} \cap 0..(t.node_count - 1)

\* the tree starts empty (chain = FALSE) or as the chain of left children
BtInit(chain) ==
    /\ tree = IF chain THEN ChainTree ELSE binary_tree_init
    /\ tree_puts = [l \in Labels |->
                       IF chain /\ l \in 1..(ChainDepth + 1) THEN l - 1 ELSE NeverPut]
    /\ path_out = NoPath

\* whether the allocation that fail names is requested by this put
FailureApplies(t, fail) ==
    CASE fail = "none" -> TRUE
      [] fail = "nodes" -> t.node_count + 1 > t.node_capacity
      [] fail = "data" -> t.node_count + 1 > t.tree_data_capacity
      [] fail = "clone" -> TRUE
      [] fail = "map" ->
            t.map_count >= (t.map_capacity * 7) \div 10

\* binary_tree_put(&tree, {label}, data) with data.code the root's treecode
\* (is_root) or the treecode of node p with the step d appended
BtPut(label, p, has_parent, is_root, d, fail, oob_step) ==
    /\ tree.node_count < SeededCount(tree) + PutsAllowed(tree)
    /\ IF tree.node_count = 0
       THEN p = 0 /\ ~has_parent /\ is_root
       ELSE p \in ParentChoices(tree)
    /\ is_root => d = TREECODE_LEFT
    /\ FailureApplies(tree, fail)
    /\ LET code == IF is_root THEN treecode_init
                   ELSE treecode_append(tree.tree_data[p + 1].code, d, TRUE).self
           data == NodeData(code, has_parent, IF has_parent THEN p ELSE 0)
           in_bounds == ~has_parent \/ next_step_in_bounds(tree.tree_data[p + 1].code, code)
           r == binary_tree_put(tree, label, data, fail, oob_step)
       IN  /\ in_bounds => oob_step = TREECODE_LEFT
           /\ tree' = r.tree
           /\ tree_puts' = IF r.ret THEN [tree_puts EXCEPT ![label] = tree.node_count]
                           ELSE tree_puts
    /\ path_out' = NoPath
    /\ UNCHANGED <<tcVars, curveVars, callVars>>

\* binary_tree_path(&tree, {source, destination}, &length); the array
\* returned by an earlier call has been freed
BtPath(source, destination, alloc_ok, zero_alloc) ==
    /\ ~path_out.called
    /\ LET endpoints == [source |-> source, destination |-> destination]
           length == PathLength(tree, endpoints)
       IN  /\ length /= 0 => zero_alloc
           /\ length <= 0 => alloc_ok
           /\ path_out' = [called |-> TRUE, source |-> source, destination |-> destination,
                           alloc_ok |-> alloc_ok,
                           result |-> binary_tree_path(tree, endpoints, alloc_ok, zero_alloc)]
    /\ UNCHANGED <<tree, tree_puts, tcVars, curveVars, callVars>>

BtNext ==
    \/ \E label \in PutLabels, p \in ParentChoices(tree) \cup {0},
          has_parent \in BOOLEAN, is_root \in BOOLEAN, d \in Steps,
          fail \in PutFailures, oob_step \in Steps :
            BtPut(label, p, has_parent, is_root, d, fail, oob_step)
    \/ \E source \in EndpointChoices(tree), destination \in EndpointChoices(tree),
          alloc_ok \in BOOLEAN, zero_alloc \in BOOLEAN :
            BtPath(source, destination, alloc_ok, zero_alloc)

(***************************************************************************)
(* Binary tree properties                                                  *)
(***************************************************************************)
\* the steps a treecode encodes: bit i - 1 of the backing array is step i
StepsOf(code) == [i \in 1..code.code_length |->
                     IF (i - 1) \in AllBits(code) THEN TREECODE_RIGHT ELSE TREECODE_LEFT]

NodeSteps(t, i) == StepsOf(t.tree_data[i + 1].code)
Depth(t, i) == t.tree_data[i + 1].code.code_length

\* every node that is not a root records as parent a node whose treecode is
\* its own treecode minus the last step
ParentsAreOneStepUp(t) ==
    \A i \in 0..(t.node_count - 1) :
        Depth(t, i) > 0 =>
            /\ t.tree_data[i + 1].has_parent
            /\ t.tree_data[i + 1].parent_index < t.node_count
            /\ NodeSteps(t, t.tree_data[i + 1].parent_index)
                   = SubSeq(NodeSteps(t, i), 1, Depth(t, i) - 1)

\* a is b or is on the parent chain of b
IsAncestorOrSelf(t, a, b) ==
    /\ Depth(t, a) <= Depth(t, b)
    /\ PathWalk(t, b, Depth(t, b) - Depth(t, a)) = a

Abs(x) == IF x < 0 THEN 0 - x ELSE x

\* p runs along the parent chain from source to destination
IsParentChain(t, p, source, destination) ==
    /\ Len(p) = Abs(Depth(t, source) - Depth(t, destination)) + 1
    /\ p[1] = source
    /\ p[Len(p)] = destination
    /\ \A j \in 1..(Len(p) - 1) :
          LET lo == IF Depth(t, source) <= Depth(t, destination) THEN p[j] ELSE p[j + 1]
              hi == IF Depth(t, source) <= Depth(t, destination) THEN p[j + 1] ELSE p[j]
          IN  /\ hi \in 0..(t.node_count - 1)
              /\ t.tree_data[hi + 1].has_parent
              /\ t.tree_data[hi + 1].parent_index = lo

\* C5: in a tree whose nodes record as parent the node one step up, the path
\* between a node and its ancestor, descendant or itself is the parent chain
\* from source to destination, of length |depth difference| + 1 (whenever the
\* allocator has memory for it).
C5_PathIsParentChain ==
    (/\ path_out.called
     /\ path_out.alloc_ok
     /\ ParentsAreOneStepUp(tree)
     /\ \/ IsAncestorOrSelf(tree, path_out.source, path_out.destination)
        \/ IsAncestorOrSelf(tree, path_out.destination, path_out.source))
    => /\ path_out.result.status = "ok"
       /\ IsParentChain(tree, path_out.result.path, path_out.source, path_out.destination)

\* no two nodes of the tree have the same treecode
CodesAreDistinct(t) ==
    \A i, j \in 0..(t.node_count - 1) :
        i /= j => NodeSteps(t, i) /= NodeSteps(t, j)

\* C6: in a tree of distinct treecodes whose nodes record as parent the node
\* one step up, the path of any two nodes begins with source and ends with
\* destination (whenever the allocator has memory for it).
C6_PathHasBothEndpoints ==
    (/\ path_out.called
     /\ path_out.alloc_ok
     /\ ParentsAreOneStepUp(tree)
     /\ CodesAreDistinct(tree))
    => /\ path_out.result.status = "ok"
       /\ Len(path_out.result.path) >= 1
       /\ path_out.result.path[1] = path_out.source
       /\ path_out.result.path[Len(path_out.result.path)] = path_out.destination

\* C7: the treecode of the parent of every stored node with has_parent set
\* is a proper prefix of the node's treecode.
C7_ParentCodeIsProperPrefix ==
    \A i \in 0..(tree.node_count - 1) :
        tree.tree_data[i + 1].has_parent =>
            /\ tree.tree_data[i + 1].parent_index < tree.node_count
            /\ Depth(tree, tree.tree_data[i + 1].parent_index) < Depth(tree, i)
            /\ IsStepPrefix(NodeSteps(tree, tree.tree_data[i + 1].parent_index),
                            NodeSteps(tree, i))

\* C8: index_for_node finds a label exactly when a node with the label was
\* put, and then gives the index of the latest put of the label.
C8_IndexForNodeIsLatestPut ==
    \A l \in Labels :
        LET r == binary_tree_index_for_node(tree, l)
        IN  /\ r.found <=> tree_puts[l] /= NeverPut
            /\ r.found => r.value = tree_puts[l]

\* node i was stored by a put that returned true and is the latest put of its
\* label; it has a parent, and its treecode is longer than its parent's
IsPutUnderParent(t, i) ==
    /\ \E l \in Labels : tree_puts[l] = i
    /\ t.tree_data[i + 1].has_parent
    /\ t.tree_data[i + 1].parent_index < t.node_count
    /\ Depth(t, t.tree_data[i + 1].parent_index) < Depth(t, i)

\* the first step from the treecode of the parent of node i towards the
\* treecode of node i
StepFromParent(t, i) ==
    NodeSteps(t, i)[Depth(t, t.tree_data[i + 1].parent_index) + 1]

IsRecordedAsChild(t, i) ==
    LET parent == t.tree_data[t.tree_data[i + 1].parent_index + 1]
        dir == StepFromParent(t, i)
    IN  /\ parent.has_children[dir + 1]
        /\ parent.child_indices[dir + 1] = i

\* C25: after any sequence of binary_tree_put calls, every node that was put
\* with has_parent set is recorded as a child of its parent: the child slot
\* of the parent selected by the first step from the parent's treecode
\* towards the node's treecode (left for 0, right for 1) holds the index of
\* the node.
C25_PutNodesStayChildren ==
    \A i \in 0..(tree.node_count - 1) :
        IsPutUnderParent(tree, i) => IsRecordedAsChild(tree, i)

(***************************************************************************)
(* src/src-c/curve: ordinates, control points and Bezier segments.         *)
(* An Ordinate (a double) is modelled by the integer count of 64ths it     *)
(* holds, and a curve parameter u (a double in [0, 1]) by the count of     *)
(* quarters it holds.  The segments of the model are linear, their control *)
(* points whole numbers, their ends SegmentSpan apart, and the inputs are  *)
(* quarter points of a span: on these the doubles of the code compute      *)
(* every sum, product and quotient below without rounding, three levels of *)
(* quarter interpolation included.                                         *)
(***************************************************************************)
UOne == 2 * 2
OrdinateOne == UOne * UOne * UOne

\* OPENTIME_EPSILON_F is 1.0e-4, less than one 64th: two modelled ordinates
\* are within it of each other exactly when they are equal
ordinate_eql_approx(self, rhs) == self = rhs

\* CURVE_EPSILON is 0.00001, less than one quarter
BelowCurveEpsilon(u) == u <= 0

control_point_init(in, out) == [in |-> in, out |-> out]

opentime_lerp(u, a, b) == (a * (UOne - u) + b * u) \div UOne

control_point_lerp(u, a, b) ==
    [in |-> opentime_lerp(u, a.in, b.in), out |-> opentime_lerp(u, a.out, b.out)]

bezier_segment_init(p0_in, p0_out, p1_in, p1_out, p2_in, p2_out, p3_in, p3_out) ==
    [p0 |-> control_point_init(p0_in, p0_out), p1 |-> control_point_init(p1_in, p1_out),
     p2 |-> control_point_init(p2_in, p2_out), p3 |-> control_point_init(p3_in, p3_out)]

\* B(u) = u^3 p4 - 3 p3 u^2 (u - 1) + 3 p2 u (u - 1)^2, u in quarters
bezier_evaluate_bezier0(unorm, p2, p3, p4) ==
    LET u == unorm
        u2 == u * u
        u3 == u2 * u
        u_minus_one == u - UOne
        umo2 == u_minus_one * u_minus_one
        term1 == u3 * p4
        term2 == ((p3 * u2) * u_minus_one) * 3
        term3 == ((p2 * 3) * u) * umo2
    IN  ((term1 - term2) + term3) \div (UOne * UOne * UOne)

\* bezier_find_u with the lower early exit taken for x <= p1
bezier_find_u_lower_exit_at_p1(x, p1, p2, p3) ==
    IF x <= p1 THEN 0
    ELSE IF x >= p3 THEN UOne
    ELSE "illinois iteration"

\* The early exits and the first regula falsi step.  On a segment that is
\* linear in its input that step lands on the root (x3 = 0) and returns; the
\* Illinois iteration that follows it in the code is entered by no segment
\* of the model, and TLC would stop on the value below if one did.
bezier_find_u(x, p1, p2, p3) ==
    IF x <= 0 THEN 0
    ELSE IF x >= p3 THEN UOne
    ELSE LET x1 == 0 - x
             x2 == p3 - x
             u3 == UOne - ((UOne * x2) \div (x2 - x1))
             x3 == bezier_evaluate_bezier0(u3, p1, p2, p3) - x
         IN  IF x3 = 0 THEN u3 ELSE "illinois iteration"

bezier_segment_findU_input(seg, target_input) ==
    LET p0 == seg.p0.in
    IN  bezier_find_u(target_input - p0, seg.p1.in - p0, seg.p2.in - p0, seg.p3.in - p0)

\* [ok, left, right]: left and right are written only when ok
bezier_segment_split_at(seg, u) ==
    IF BelowCurveEpsilon(u) \/ u >= UOne
    THEN [ok |-> FALSE]
    ELSE LET Q1 == control_point_lerp(u, seg.p0, seg.p1)
             Q2 == control_point_lerp(u, seg.p1, seg.p2)
             Q3 == control_point_lerp(u, seg.p2, seg.p3)
             R1 == control_point_lerp(u, Q1, Q2)
             R2 == control_point_lerp(u, Q2, Q3)
             P == control_point_lerp(u, R1, R2)
         IN  [ok |-> TRUE,
              left |-> [p0 |-> seg.p0, p1 |-> Q1, p2 |-> R1, p3 |-> P],
              right |-> [p0 |-> P, p1 |-> R2, p2 |-> Q3, p3 |-> seg.p3]]

(***************************************************************************)
(* src/src-c/curve/bezier_curve.h: the BezierCurve.  segments is the       *)
(* array (<<>> models NULL as well), segment_count the count beside it.    *)
(***************************************************************************)
bezier_curve_init == [segments |-> <<>>, segment_count |-> 0]

\* [ret, curve]: the curve is written in every case
bezier_curve_init_from_segments(segments, segment_count, alloc_ok) ==
    IF segment_count = 0
    THEN [ret |-> TRUE, curve |-> [segments |-> <<>>, segment_count |-> 0]]
    ELSE IF ~alloc_ok
    THEN [ret |-> FALSE, curve |-> [segments |-> <<>>, segment_count |-> segment_count]]
    ELSE [ret |-> TRUE,
          curve |-> [segments |-> [i \in 1..segment_count |-> segments[i]],
                     segment_count |-> segment_count]]

\* bezier_curve_clone copying one segment too few
bezier_curve_clone_short(src, alloc_ok) ==
    bezier_curve_init_from_segments(src.segments, src.segment_count - 1, alloc_ok)

bezier_curve_clone(src, alloc_ok) ==
    bezier_curve_init_from_segments(src.segments, src.segment_count, alloc_ok)

\* (size_t)-1
SegmentNotFound == -1

Segment(c, i) == c.segments[i + 1]

\* bezier_curve_find_segment_index with the segment open at p0.in and
\* closed at p3.in
bezier_curve_find_segment_index_closed_right(c, input) ==
    LET in_range(i) ==
            \/ input > Segment(c, i).p0.in /\ input <= Segment(c, i).p3.in
            \/ input < Segment(c, i).p0.in /\ input >= Segment(c, i).p3.in
        hits == {i \in 0..(c.segment_count - 1) : in_range(i)}
    IN  IF c.segment_count = 0 \/ hits = {} THEN SegmentNotFound ELSE SetMin(hits)

bezier_curve_find_segment_index(c, input) ==
    LET in_range(i) ==
            \/ input >= Segment(c, i).p0.in /\ input < Segment(c, i).p3.in
            \/ input <= Segment(c, i).p0.in /\ input > Segment(c, i).p3.in
        hits == {i \in 0..(c.segment_count - 1) : in_range(i)}
    IN  IF c.segment_count = 0 \/ hits = {} THEN SegmentNotFound ELSE SetMin(hits)

\* [ret, start, end]: the interval is written only when ret
bezier_curve_extents_input(c) ==
    IF c.segment_count = 0
    THEN [ret |-> FALSE]
    ELSE LET ends == {Segment(c, i).p0.in : i \in 0..(c.segment_count - 1)}
                        \cup {Segment(c, i).p3.in : i \in 0..(c.segment_count - 1)}
         IN  [ret |-> TRUE, start |-> SetMin(ends), end |-> SetMax(ends)]

TRIM_BEFORE == "TRIM_BEFORE"
TRIM_AFTER == "TRIM_AFTER"

\* [ret, written, curve]: curve is *out_curve after the call, written says
\* whether the call stored anything there
bezier_curve_trimmed_from_input_ordinate(self, ordinate, direction, alloc_ok) ==
    LET extents == bezier_curve_extents_input(self)
        cloned == bezier_curve_clone(self, alloc_ok)
        copy == [ret |-> cloned.ret, written |-> TRUE, curve |-> cloned.curve]
        empty == [ret |-> TRUE, written |-> TRUE, curve |-> bezier_curve_init]
        failed == [ret |-> FALSE, written |-> FALSE, curve |-> bezier_curve_init]
        seg_index == bezier_curve_find_segment_index(self, ordinate)
        seg_to_split == Segment(self, seg_index)
        unorm == bezier_segment_findU_input(seg_to_split, ordinate)
        split == bezier_segment_split_at(seg_to_split, unorm)
        new_count == IF direction = TRIM_BEFORE
                     THEN 1 + (self.segment_count - seg_index - 1)
                     ELSE seg_index + 1
        new_segments ==
            IF direction = TRIM_BEFORE
            THEN [i \in 1..new_count |->
                    IF i = 1 THEN split.right ELSE Segment(self, seg_index + i - 1)]
            ELSE [i \in 1..new_count |->
                    IF i = new_count THEN split.left ELSE Segment(self, i - 1)]
    IN  IF ~extents.ret THEN empty
        ELSE IF direction = TRIM_BEFORE /\ ordinate <= extents.start THEN copy
        ELSE IF direction = TRIM_AFTER /\ ordinate >= extents.end THEN copy
        ELSE IF seg_index = SegmentNotFound THEN failed
        ELSE IF \/ ordinate_eql_approx(seg_to_split.p0.in, ordinate)
                \/ ordinate_eql_approx(seg_to_split.p3.in, ordinate) THEN copy
        ELSE IF ~split.ok THEN empty
        ELSE IF ~alloc_ok THEN failed
        ELSE [ret |-> TRUE, written |-> TRUE,
              curve |-> [segments |-> new_segments, segment_count |-> new_count]]

(***************************************************************************)
(* The curve state machine: a curve built by bezier_curve_init_from_       *)
(* segments from at most MaxSegments linear segments that meet end to end, *)
(* then find_segment_index and trimmed_from_input_ordinate calls on it.    *)
(***************************************************************************)
\* the input distance between the ends of a segment: a multiple of 3 (the
\* inner control points of a linear segment lie at its thirds) and of 4
SegmentSpan == 3 * UOne * OrdinateOne

\* the output of the curve is OutputScale times its input
OutputScales == {1, 2}

LinearSegment(a, b, m) ==
    bezier_segment_init(a, m * a,
                        a + (b - a) \div 3, m * (a + (b - a) \div 3),
                        a + 2 * ((b - a) \div 3), m * (a + 2 * ((b - a) \div 3)),
                        b, m * b)

\* n segments over the knots 0, SegmentSpan, ..., n * SegmentSpan, their
\* input increasing or (the same knots from the far end) decreasing
KnotCurveSegments(n, increasing, m) ==
    [i \in 1..n |->
        IF increasing
        THEN LinearSegment((i - 1) * SegmentSpan, i * SegmentSpan, m)
        ELSE LinearSegment((n - i + 1) * SegmentSpan, (n - i) * SegmentSpan, m)]

\* the ordinates the calls are made with: the quarter points of the spans,
\* from half a span before the first knot to half a span after the last
InputOrdinates == {k * (SegmentSpan \div UOne) : k \in (0 - 2)..(UOne * MaxSegments + 2)}

NoCurveCall == [op |-> "none"]

CurveInit ==
    /\ \E n \in 0..MaxSegments, increasing \in BOOLEAN, m \in OutputScales :
          curve = bezier_curve_init_from_segments(
                      KnotCurveSegments(n, increasing, m), n, TRUE).curve
    /\ curve_out = NoCurveCall

CurveFindSegmentIndex(input) ==
    /\ curve_out' = [op |-> "find_segment_index", input |-> input,
                     index |-> bezier_curve_find_segment_index(curve, input)]
    /\ UNCHANGED <<curve, tcVars, treeVars, callVars>>

CurveTrim(ordinate, direction, alloc_ok) ==
    /\ LET r == bezier_curve_trimmed_from_input_ordinate(curve, ordinate, direction, alloc_ok)
       IN  curve_out' = [op |-> "trimmed_from_input_ordinate", ordinate |-> ordinate,
                         direction |-> direction, alloc_ok |-> alloc_ok,
                         ret |-> r.ret, written |-> r.written, curve |-> r.curve]
    /\ UNCHANGED <<curve, tcVars, treeVars, callVars>>

CurveNext ==
    \/ \E input \in InputOrdinates : CurveFindSegmentIndex(input)
    \/ \E ordinate \in InputOrdinates, direction \in {TRIM_BEFORE, TRIM_AFTER},
          alloc_ok \in BOOLEAN :
          CurveTrim(ordinate, direction, alloc_ok)

(***************************************************************************)
(* Properties of the curve.                                                *)
(***************************************************************************)
\* segment i + 1 starts where segment i ends, and every segment's input
\* increases from p0 to p3
RightMetIncreasing(c) ==
    /\ \A i \in 0..(c.segment_count - 1) : Segment(c, i).p0.in < Segment(c, i).p3.in
    /\ \A i \in 0..(c.segment_count - 2) : Segment(c, i).p3.in = Segment(c, i + 1).p0.in

\* the segments i whose right end is the internal seam x
SeamsAt(c, x) ==
    {i \in 0..(c.segment_count - 2) :
        Segment(c, i).p3.in = x /\ Segment(c, i + 1).p0.in = x}

FindAtSeam ==
    /\ curve_out.op = "find_segment_index"
    /\ RightMetIncreasing(curve)
    /\ SeamsAt(curve, curve_out.input) /= {}

\* C9, as the specification has it: for a curve of right-met segments with increasing input,
\* find_segment_index with x exactly at the internal seam between segment i
\* and segment i + 1 returns i, the left-adjacent segment.
C9_SeamFindsLeftAdjacent ==
    FindAtSeam => \A i \in SeamsAt(curve, curve_out.input) : curve_out.index = i

\* C9, as the code has it: for a curve of right-met segments with increasing input,
\* find_segment_index with x exactly at the internal seam between segment i
\* and segment i + 1 returns i + 1, the right-adjacent segment (a segment
\* holds its p0.in and not its p3.in).
C9_SeamFindsRightAdjacent ==
    FindAtSeam => \A i \in SeamsAt(curve, curve_out.input) : curve_out.index = i + 1

\* a find_segment_index call at an internal seam has returned
C9_Witness ==
    /\ FindAtSeam
    /\ curve.segment_count = MaxSegments
    /\ curve_out.index = MaxSegments - 1

\* the input extents of a curve with segments: the least and the greatest
\* input of its segments' ends
InputEnds(c) ==
    UNION {{Segment(c, i).p0.in, Segment(c, i).p3.in} : i \in 0..(c.segment_count - 1)}

ExtentsStart(c) == SetMin(InputEnds(c))
ExtentsEnd(c) == SetMax(InputEnds(c))

TrimCalled ==
    /\ curve_out.op = "trimmed_from_input_ordinate"
    /\ curve.segment_count > 0

\* the call succeeded and *out_curve equals the input curve
TrimReturnedEqualCurve ==
    /\ curve_out.ret
    /\ curve_out.written
    /\ curve_out.curve = curve

\* C10, as the specification has it: trimmed_from_input_ordinate with an ordinate outside the
\* curve's input extents, on either side and for either trim direction,
\* succeeds and returns a curve equal to the input curve (the copy's
\* allocation succeeding).
C10_TrimOutsideReturnsClone ==
    (/\ TrimCalled
     /\ curve_out.alloc_ok
     /\ \/ curve_out.ordinate < ExtentsStart(curve)
        \/ curve_out.ordinate > ExtentsEnd(curve))
    => TrimReturnedEqualCurve

\* C10, as the code has it: on a curve with segments, TRIM_BEFORE with an ordinate at or
\* before the start of the input extents and TRIM_AFTER with an ordinate at
\* or after their end succeed, when the copy can be allocated, and return a
\* curve equal to the input curve; TRIM_BEFORE with an ordinate after the
\* end and TRIM_AFTER with an ordinate before the start return false and
\* store no curve.
C10_TrimOutsideByDirection ==
    TrimCalled =>
        /\ (\/ curve_out.direction = TRIM_BEFORE /\ curve_out.ordinate <= ExtentsStart(curve)
            \/ curve_out.direction = TRIM_AFTER /\ curve_out.ordinate >= ExtentsEnd(curve))
           => (curve_out.alloc_ok => TrimReturnedEqualCurve)
        /\ (\/ curve_out.direction = TRIM_BEFORE /\ curve_out.ordinate > ExtentsEnd(curve)
            \/ curve_out.direction = TRIM_AFTER /\ curve_out.ordinate < ExtentsStart(curve))
           => (~curve_out.ret /\ ~curve_out.written)

\* a trim before an ordinate that lies before the extents of a curve of
\* MaxSegments segments has returned the copy
C10_Witness ==
    /\ TrimCalled
    /\ curve.segment_count = MaxSegments
    /\ curve_out.direction = TRIM_BEFORE
    /\ curve_out.ordinate < ExtentsStart(curve)
    /\ TrimReturnedEqualCurve

(***************************************************************************)
(* src/src/opentime.c: the 32 bit rational ot_r32_t, {int32_t num;         *)
(* uint32_t den}.  An int32_t is the integer itself.  A uint32_t is held   *)
(* as the int32_t with the same 32 bits (the value itself below 2^31, the  *)
(* value less 2^32 from there on), which is what C's conversions between   *)
(* the two types keep; sums, differences and products are the same bits in *)
(* both readings, while order, division and right shift are not and have   *)
(* the unsigned operators below.  TLC's integers are 32 bits wide too and  *)
(* TLC stops on a sum or product that leaves them, so nothing is computed  *)
(* at another width than the code's.                                       *)
(***************************************************************************)
Int32Max == 1073741823 + 1073741824

\* a < b for two uint32_t
U32Less(a, b) == IF (a < 0) = (b < 0) THEN a < b ELSE b < 0

\* a / b for two uint32_t, b not 0
U32Div(a, b) ==
    IF b < 0 THEN (IF U32Less(a, b) THEN 0 ELSE 1)
    ELSE IF a >= 0 THEN a \div b
    ELSE IF b = 1 THEN a
    ELSE LET low == (a + Int32Max) + 1
         IN  (Int32Max \div b) + (low \div b)
                 + (((Int32Max % b) + (low % b) + 1) \div b)

\* a >> 1 for a uint32_t
U32Shr1(a) == IF a >= 0 THEN a \div 2 ELSE ((a \div 2) + Int32Max) + 1

\* a / b and a % b for two int32_t, b not 0: the quotient is truncated
\* toward zero
Int32Div(a, b) ==
    IF a >= 0
    THEN (IF b > 0 THEN a \div b ELSE 0 - (a \div (0 - b)))
    ELSE (IF b > 0 THEN 0 - ((0 - a) \div b) ELSE (0 - a) \div (0 - b))

Int32Mod(a, b) == a - b * Int32Div(a, b)

\* the while loop of ot_gcd32
RECURSIVE gcd32_loop(_, _, _)
gcd32_loop(u, v, shl) ==
    IF u /= 0 /\ v /= 0 /\ u /= v
    THEN LET eu == u % 2 = 0
             ev == v % 2 = 0
         IN  IF eu /\ ev THEN gcd32_loop(U32Shr1(u), U32Shr1(v), shl + 1)
             ELSE IF eu /\ ~ev THEN gcd32_loop(U32Shr1(u), v, shl)
             ELSE IF ~eu /\ ev THEN gcd32_loop(u, U32Shr1(v), shl)
             ELSE IF U32Less(v, u) THEN gcd32_loop(U32Shr1(u - v), v, shl)
             ELSE gcd32_loop(U32Shr1(v - u), u, shl)
    ELSE IF u = 0 THEN v * Pow2(shl) ELSE u * Pow2(shl)

ot_gcd32(u, v) ==
    IF u = 0 THEN v
    ELSE IF v = 0 THEN u
    ELSE IF u = v THEN u
    ELSE gcd32_loop(u, v, 0)

r32(num, den) == [num |-> num, den |-> den]

\* what a function gives back: a value, or no defined behaviour at all
\* because it divided an integer by zero
Returns(value) == [undefined |-> FALSE, value |-> value]
DividesByZero == [undefined |-> TRUE]

ot_r32_abs(r) == r32(IF r.num > 0 THEN r.num ELSE 0 - r.num, r.den)

ot_r32_sign(r) == IF r.num > 0 THEN 1 ELSE 0 - 1

\* r.num / gcd divides the uint32_t that r.num converts to
ot_r32_normalize(r) ==
    IF r.num = 0 \/ r.num = 1 \/ r.den = 1 \/ r.den = 0
    THEN r
    ELSE LET n == IF r.num < 0 THEN 0 - r.num ELSE r.num
             gcd == ot_gcd32(n, r.den)
         IN  r32(U32Div(r.num, gcd), U32Div(r.den, gcd))

\* a.num / a.den divides the uint32_t that a.num converts to
ot_r32_floor(a) ==
    IF a.den = 0 THEN DividesByZero ELSE Returns(U32Div(a.num, a.den))

\* the initializer names the numerator only: the denominator is 0
ot_r32_force_den(r, den) ==
    IF r.den = 0 THEN DividesByZero
    ELSE Returns(r32(U32Div(r.num * den, r.den), 0))

ot_r32_add(lh, rh) ==
    LET g == ot_gcd32(lh.den, rh.den)
        den == U32Div(lh.den, g)
        num == lh.num * U32Div(rh.den, g) + rh.num * den
        g2 == ot_gcd32(num, g)
    IN  IF g = 0 THEN DividesByZero
        ELSE Returns(r32(U32Div(num, g2), U32Div(den * rh.den, g2)))

ot_r32_mul(lh, rh) ==
    LET sign == ot_r32_sign(lh) * ot_r32_sign(rh)
        lhu == ot_r32_abs(lh)
        rhu == ot_r32_abs(rh)
        g1 == ot_gcd32(lhu.num, lhu.den)
        g2 == ot_gcd32(rhu.num, rhu.den)
    IN  IF g1 = 0 \/ g2 = 0 THEN DividesByZero
        ELSE Returns(ot_r32_normalize(r32(
                 U32Div(sign * (U32Div(lhu.num, g1) * rhu.num), g2),
                 U32Div(U32Div(lhu.den, g2) * rhu.den, g1))))

\* while (r < 0) { r += d; --q; }
RECURSIVE NonNegativeModulus(_, _, _)
NonNegativeModulus(q, r, d) ==
    IF r < 0 THEN NonNegativeModulus(q - 1, r + d, d) ELSE [q |-> q, r |-> r]

\* the while (true) loop of ot_r32_less_than and the two returns after it
RECURSIVE less_than_loop(_, _, _, _, _, _, _)
less_than_loop(d_l, q_l, r_l, d_r, q_r, r_r, reversed) ==
    IF q_l /= q_r
    THEN (IF reversed = 1 THEN q_l > q_r ELSE q_l < q_r)
    ELSE LET flipped == 1 - reversed
         IN  IF r_l = 0 \/ r_r = 0
             THEN (IF r_l = r_r THEN FALSE ELSE (r_r /= 0) /= (flipped = 1))
             ELSE less_than_loop(r_l, Int32Div(d_l, r_l), Int32Mod(d_l, r_l),
                                 r_r, Int32Div(d_r, r_r), Int32Mod(d_r, r_r),
                                 flipped)

\* den < 0 is false of every uint32_t; d_l and d_r are the denominators
\* converted to int32_t
ot_r32_less_than(lh, rh) ==
    LET n_l == lh.num
        d_l == lh.den
        n_r == rh.num
        d_r == rh.den
        l == NonNegativeModulus(Int32Div(n_l, d_l), Int32Mod(n_l, d_l), d_l)
        r == NonNegativeModulus(Int32Div(n_r, d_r), Int32Mod(n_r, d_r), d_r)
    IN  IF d_l = 0 \/ d_r = 0 THEN DividesByZero
        ELSE Returns(less_than_loop(d_l, l.q, l.r, d_r, r.q, r.r, 0))

(***************************************************************************)
(* The rational functions as a state machine: two operands are drawn, and  *)
(* each step calls one function on them.  A call that divides by zero has  *)
(* no defined behaviour: the build either traps (the integer divide fault  *)
(* of x86) or returns a value nothing is known about.                      *)
(***************************************************************************)
R32Nums == (0 - MaxNum)..MaxNum
R32Dens == 0..MaxDen
R32Values == {r32(n, d) : n \in R32Nums, d \in R32Dens}

Outcome(op, result, traps) ==
    IF result.undefined
    THEN [op |-> op, trapped |-> traps, defined |-> FALSE]
    ELSE [op |-> op, trapped |-> FALSE, defined |-> TRUE,
          value |-> result.value]

R32Init ==
    /\ call_args \in R32Values \X R32Values
    /\ call_frames = <<>>
    /\ call_out = NoCall

R32LessThan(traps) ==
    /\ call_out' = Outcome("ot_r32_less_than",
                           ot_r32_less_than(call_args[1], call_args[2]), traps)
    /\ UNCHANGED <<call_args, call_frames, tcVars, treeVars, curveVars>>

R32Normalize ==
    /\ call_out' = Outcome("ot_r32_normalize",
                           Returns(ot_r32_normalize(call_args[1])), FALSE)
    /\ UNCHANGED <<call_args, call_frames, tcVars, treeVars, curveVars>>

R32Floor(traps) ==
    /\ call_out' = Outcome("ot_r32_floor", ot_r32_floor(call_args[1]), traps)
    /\ UNCHANGED <<call_args, call_frames, tcVars, treeVars, curveVars>>

R32ForceDen(traps) ==
    /\ call_args[2].den /= 0
    /\ call_out' = Outcome("ot_r32_force_den",
                           ot_r32_force_den(call_args[1], call_args[2].den),
                           traps)
    /\ UNCHANGED <<call_args, call_frames, tcVars, treeVars, curveVars>>

R32Add(traps) ==
    /\ call_out' = Outcome("ot_r32_add",
                           ot_r32_add(call_args[1], call_args[2]), traps)
    /\ UNCHANGED <<call_args, call_frames, tcVars, treeVars, curveVars>>

R32Mul(traps) ==
    /\ call_out' = Outcome("ot_r32_mul",
                           ot_r32_mul(call_args[1], call_args[2]), traps)
    /\ UNCHANGED <<call_args, call_frames, tcVars, treeVars, curveVars>>

R32Next ==
    \/ \E traps \in BOOLEAN : R32LessThan(traps)
    \/ R32Normalize
    \/ \E traps \in BOOLEAN : R32Floor(traps)
    \/ \E traps \in BOOLEAN : R32ForceDen(traps)
    \/ \E traps \in BOOLEAN : R32Add(traps)
    \/ \E traps \in BOOLEAN : R32Mul(traps)

(***************************************************************************)
(* Properties of the rational functions                                    *)
(***************************************************************************)
\* the greatest common divisor as arithmetic has it, gcd(0, b) = b
Divisors(a, b) == {d \in 1..(a + b + 1) : a % d = 0 /\ b % d = 0}
Gcd(a, b) == SetMax(Divisors(a, b))

LessThanReturned ==
    /\ call_out.op = "ot_r32_less_than"
    /\ call_args[1].den > 0
    /\ call_args[2].den > 0

\* C11: for two finite rationals with positive denominators, in lowest terms
\* or not and of either sign, ot_r32_less_than(a, b) is true exactly when
\* a.num * b.den < b.num * a.den.
C11_LessThanIsCrossProductOrder ==
    LessThanReturned =>
        /\ call_out.defined
        /\ call_out.value =
               (call_args[1].num * call_args[2].den
                    < call_args[2].num * call_args[1].den)

NormalizeReturned ==
    /\ call_out.op = "ot_r32_normalize"
    /\ call_args[1].den > 0

\* C12: ot_r32_normalize(r) returns r.num and r.den each divided by
\* gcd(|r.num|, r.den): the same sign, in lowest terms.
C12_NormalizeDividesByGcd ==
    NormalizeReturned =>
        LET r == call_args[1]
            n == IF r.num < 0 THEN 0 - r.num ELSE r.num
            g == Gcd(n, r.den)
        IN  call_out.value = r32(Int32Div(r.num, g), r.den \div g)

HasZeroDenominator ==
    \/ call_args[1].den = 0
    \/ call_out.op \in {"ot_r32_less_than", "ot_r32_add", "ot_r32_mul"}
           /\ call_args[2].den = 0

\* C13: no rational operation divides or takes a remainder by zero: called
\* with an operand whose denominator is 0 (NaN, an infinity),
\* ot_r32_less_than, ot_r32_floor, ot_r32_force_den, ot_r32_add and
\* ot_r32_mul each return a result and do not trap.
C13_ZeroDenominatorNeverTraps ==
    (call_out.op \in {"ot_r32_less_than", "ot_r32_floor", "ot_r32_force_den",
                      "ot_r32_add", "ot_r32_mul"}
        /\ HasZeroDenominator) =>
        call_out.defined /\ ~call_out.trapped

MulCalledOnFinite ==
    /\ call_out.op = "ot_r32_mul"
    /\ call_args[1].den > 0
    /\ call_args[2].den > 0

\* C26: for finite rationals a and b with positive denominators, numerators
\* of either sign, in lowest terms or not, ot_r32_mul(a, b) returns the
\* product a.num * b.num / (a.den * b.den) in lowest terms.
C26_MulIsProductInLowestTerms ==
    MulCalledOnFinite =>
        LET num == call_args[1].num * call_args[2].num
            den == call_args[1].den * call_args[2].den
            g == Gcd(IF num < 0 THEN 0 - num ELSE num, den)
        IN  /\ call_out.defined
            /\ call_out.value = r32(Int32Div(num, g), den \div g)

(***************************************************************************)
(* src/src-c/opentime/interval.h: ContinuousInterval, the right-open       *)
(* interval [start, end).  An Ordinate is a double compared with ==, <, >  *)
(* and >=; the finite doubles and the two infinities are totally ordered,  *)
(* and they are integers here.                                             *)
(***************************************************************************)
ordinate_min(self, rhs) == IF self < rhs THEN self ELSE rhs

ordinate_max(self, rhs) == IF self > rhs THEN self ELSE rhs

continuous_interval_from_ordinates(start, end) == [start |-> start, end |-> end]

continuous_interval_overlaps_closed(self, ord) ==
    ord >= self.start /\ ord <= self.end

continuous_interval_overlaps(self, ord) ==
    LET is_instant == self.start = self.end
    IN  IF is_instant /\ self.start = ord
        THEN TRUE
        ELSE ord >= self.start /\ ord < self.end

continuous_interval_is_instant(self) == self.start = self.end

continuous_interval_any_overlap_general(fst, snd) ==
    fst.start < snd.end /\ fst.end > snd.start

continuous_interval_any_overlap(fst, snd) ==
    LET fst_is_instant == continuous_interval_is_instant(fst)
        snd_is_instant == continuous_interval_is_instant(snd)
    IN  IF fst_is_instant /\ fst.start >= snd.start /\ fst.start < snd.end
        THEN TRUE
        ELSE IF snd_is_instant /\ snd.start >= fst.start
                    /\ snd.start < fst.end
        THEN TRUE
        ELSE IF fst_is_instant /\ snd_is_instant /\ fst.start = snd.start
        THEN TRUE
        ELSE fst.start < snd.end /\ fst.end > snd.start

\* ret is the bool returned, written tells whether *result was assigned
continuous_interval_intersect(fst, snd) ==
    IF ~continuous_interval_any_overlap(fst, snd)
    THEN [ret |-> FALSE, written |-> FALSE]
    ELSE [ret |-> TRUE, written |-> TRUE,
          result |-> continuous_interval_from_ordinates(
                         ordinate_max(fst.start, snd.start),
                         ordinate_min(fst.end, snd.end))]

(***************************************************************************)
(* The interval functions as a state machine: two intervals and an         *)
(* ordinate are drawn, intervals with end < start among them, and each     *)
(* step calls one function on them.                                        *)
(***************************************************************************)
Ordinates == (0 - 1)..MaxOrdinate
Intervals ==
    {continuous_interval_from_ordinates(s, e) : s \in Ordinates, e \in Ordinates}

IntervalInit ==
    /\ call_args \in Intervals \X Intervals \X Ordinates
    /\ call_frames = <<>>
    /\ call_out = NoCall

IntervalOverlaps ==
    /\ call_out' = Outcome("continuous_interval_overlaps",
                           Returns(continuous_interval_overlaps(
                                       call_args[1], call_args[3])), FALSE)
    /\ UNCHANGED <<call_args, call_frames, tcVars, treeVars, curveVars>>

IntervalIntersect ==
    /\ call_out' = Outcome("continuous_interval_intersect",
                           Returns(continuous_interval_intersect(
                                       call_args[1], call_args[2])), FALSE)
    /\ UNCHANGED <<call_args, call_frames, tcVars, treeVars, curveVars>>

IntervalNext == IntervalOverlaps \/ IntervalIntersect

(***************************************************************************)
(* Properties of the interval functions                                    *)
(***************************************************************************)
\* C14: continuous_interval_overlaps(i, o) is true exactly when
\* i.start <= o < i.end, or i is an instant (start = end) and o = i.start;
\* so it is true for o = start and false for o = end of an interval that is
\* not an instant.
C14_OverlapsIsHalfOpenOrInstant ==
    call_out.op = "continuous_interval_overlaps" =>
        LET i == call_args[1]
            o == call_args[3]
        IN  /\ call_out.value =
                   \/ i.start <= o /\ o < i.end
                   \/ i.start = i.end /\ o = i.start
            /\ o = i.start /\ i.start < i.end => call_out.value = TRUE
            /\ o = i.end /\ i.start /= i.end => call_out.value = FALSE

C14_Witness ==
    /\ call_out.op = "continuous_interval_overlaps"
    /\ call_args[1].start < call_args[1].end
    /\ call_args[3] = call_args[1].end
    /\ call_out.value = FALSE

\* the ordinates an interval overlaps, and those two intervals both overlap
Overlapped(i) == {o \in Ordinates : continuous_interval_overlaps(i, o)}
OverlappedByBoth == Overlapped(call_args[1]) \cap Overlapped(call_args[2])

IntersectCalledOnOrdered ==
    /\ call_out.op = "continuous_interval_intersect"
    /\ call_args[1].start <= call_args[1].end
    /\ call_args[2].start <= call_args[2].end

\* C15: for two intervals with start <= end, instants among them,
\* continuous_interval_intersect returns false exactly when no ordinate is
\* overlapped by both, and otherwise it returns the interval from the larger
\* start to the smaller end, which overlaps exactly the ordinates that both
\* overlap.
C15_IntersectIsCommonOverlap ==
    IntersectCalledOnOrdered =>
        LET a == call_args[1]
            b == call_args[2]
            out == call_out.value
        IN  /\ out.ret = FALSE <=> OverlappedByBoth = {}
            /\ out.ret =>
                   /\ out.result.start = ordinate_max(a.start, b.start)
                   /\ out.result.end = ordinate_min(a.end, b.end)
                   /\ Overlapped(out.result) = OverlappedByBoth

C15_Witness ==
    /\ IntersectCalledOnOrdered
    /\ call_args[1].start = call_args[1].end
    /\ call_args[2].start = call_args[1].start
    /\ call_args[2].start < call_args[2].end
    /\ call_out.value.ret

(***************************************************************************)
(* src/src-c/opentime/transform.h: AffineTransform1D, y = x * scale +      *)
(* offset.  Ordinates are counts of 64ths as in the curve model, so 1.0 is *)
(* OrdinateOne.  The operands are halves and the scales are powers of two, *)
(* for which every product and quotient below is a whole count of 64ths:   *)
(* the double arithmetic of the code is exact on them, and so is this.  A  *)
(* quotient that is not whole is the string below, on which TLC stops.     *)
(***************************************************************************)
ExactQuotient(n, d) ==
    IF Int32Mod(n, d) = 0 THEN Int32Div(n, d) ELSE "not a count of 64ths"

ordinate_neg(self) == 0 - self

ordinate_add(self, rhs) == self + rhs

ordinate_mul(self, rhs) == ExactQuotient(self * rhs, OrdinateOne)

ordinate_div(self, rhs) == ExactQuotient(self * OrdinateOne, rhs)

AffineTransform1D(offset, scale) == [offset |-> offset, scale |-> scale]

AFFINE_TRANSFORM_1D_IDENTITY == AffineTransform1D(0, OrdinateOne)

affine_transform_1d_applied_to_ordinate(self, ord) ==
    ordinate_add(ordinate_mul(ord, self.scale), self.offset)

affine_transform_1d_applied_to_interval(self, cint) ==
    [start |-> affine_transform_1d_applied_to_ordinate(self, cint.start),
     end |-> affine_transform_1d_applied_to_ordinate(self, cint.end)]

affine_transform_1d_applied_to_bounds(self, bnds) ==
    IF self.scale < 0
    THEN [start |-> affine_transform_1d_applied_to_ordinate(self, bnds.end),
          end |-> affine_transform_1d_applied_to_ordinate(self, bnds.start)]
    ELSE affine_transform_1d_applied_to_interval(self, bnds)

\* the composition with its operands exchanged: self applied first
affine_transform_1d_applied_to_transform_exchanged(self, rhs) ==
    AffineTransform1D(affine_transform_1d_applied_to_ordinate(rhs, self.offset),
                      ordinate_mul(self.scale, rhs.scale))

affine_transform_1d_applied_to_transform(self, rhs) ==
    AffineTransform1D(affine_transform_1d_applied_to_ordinate(self, rhs.offset),
                      ordinate_mul(rhs.scale, self.scale))

affine_transform_1d_inverted_offset_only_negated(self) ==
    AffineTransform1D(ordinate_neg(self.offset),
                      ordinate_div(OrdinateOne, self.scale))

\* the assert on the first line is the guard of the action that calls this
affine_transform_1d_inverted(self) ==
    AffineTransform1D(ordinate_div(ordinate_neg(self.offset), self.scale),
                      ordinate_div(OrdinateOne, self.scale))

(***************************************************************************)
(* The transform functions as a state machine: a transform, an interval    *)
(* and an ordinate are drawn, and each step calls one function on them.    *)
(***************************************************************************)
Half == OrdinateOne \div 2
AffineOrdinates == {k * Half : k \in (0 - MaxHalves)..MaxHalves}
AffineScales == {k * Half : k \in {0 - 4, 0 - 2, 0 - 1, 0, 1, 2, 4}}
AffineTransforms ==
    {AffineTransform1D(o, s) : o \in AffineOrdinates, s \in AffineScales}
AffineIntervals ==
    {continuous_interval_from_ordinates(s, e) :
        s \in AffineOrdinates, e \in AffineOrdinates}

AffineInit ==
    /\ call_args \in AffineTransforms \X AffineIntervals \X AffineOrdinates
    /\ call_frames = <<>>
    /\ call_out = NoCall

AffineAppliedToBounds ==
    /\ call_out' = Outcome("affine_transform_1d_applied_to_bounds",
                           Returns(affine_transform_1d_applied_to_bounds(
                                       call_args[1], call_args[2])), FALSE)
    /\ UNCHANGED <<call_args, call_frames, tcVars, treeVars, curveVars>>

AffineInverted ==
    /\ call_args[1].scale /= 0
    /\ call_out' = Outcome("affine_transform_1d_inverted",
                           Returns(affine_transform_1d_inverted(call_args[1])),
                           FALSE)
    /\ UNCHANGED <<call_args, call_frames, tcVars, treeVars, curveVars>>

AffineNext == AffineAppliedToBounds \/ AffineInverted

(***************************************************************************)
(* Properties of the transform functions                                   *)
(***************************************************************************)
BoundsCalledOnOrdered ==
    /\ call_out.op = "affine_transform_1d_applied_to_bounds"
    /\ call_args[2].start <= call_args[2].end

\* C16: for every transform, of negative scale too, and every bounds
\* interval with start <= end, affine_transform_1d_applied_to_bounds returns
\* an interval with start <= end whose two endpoints are the images of the
\* two endpoints of the input.
C16_AppliedToBoundsIsOrdered ==
    BoundsCalledOnOrdered =>
        LET T == call_args[1]
            b == call_args[2]
            out == call_out.value
        IN  /\ out.start <= out.end
            /\ {out.start, out.end} =
                   {affine_transform_1d_applied_to_ordinate(T, b.start),
                    affine_transform_1d_applied_to_ordinate(T, b.end)}

C16_Witness ==
    /\ BoundsCalledOnOrdered
    /\ call_args[1].scale < 0
    /\ call_args[2].start < call_args[2].end
    /\ call_out.value.start < call_out.value.end

\* C17: for every transform T with scale /= 0 and every ordinate x, in exact
\* arithmetic T applied to T.inverted() applied to x is x, and T.inverted()
\* composed with T is the identity transform (offset 0, scale 1).
C17_InvertedIsInverse ==
    call_out.op = "affine_transform_1d_inverted" =>
        LET T == call_args[1]
            x == call_args[3]
            inverted == call_out.value
        IN  /\ affine_transform_1d_applied_to_ordinate(T,
                   affine_transform_1d_applied_to_ordinate(inverted, x)) = x
            /\ affine_transform_1d_applied_to_transform(inverted, T)
                   = AFFINE_TRANSFORM_1D_IDENTITY
            /\ affine_transform_1d_applied_to_transform(T, inverted)
                   = AFFINE_TRANSFORM_1D_IDENTITY

C17_Witness ==
    /\ call_out.op = "affine_transform_1d_inverted"
    /\ call_args[1].scale < 0
    /\ call_args[1].scale /= 0 - OrdinateOne
    /\ call_args[1].offset /= 0
    /\ call_args[3] /= 0

(***************************************************************************)
(* State machine of the composition of two transforms: call_args is        *)
(* <<A, B, x>>                                                             *)
(***************************************************************************)
ComposeInit ==
    /\ call_args \in AffineTransforms \X AffineTransforms \X AffineOrdinates
    /\ call_frames = <<>>
    /\ call_out = NoCall

AffineAppliedToTransform ==
    /\ call_out' = Outcome("affine_transform_1d_applied_to_transform",
                           Returns(affine_transform_1d_applied_to_transform(
                                       call_args[1], call_args[2])), FALSE)
    /\ UNCHANGED <<call_args, call_frames, tcVars, treeVars, curveVars>>

ComposeNext == AffineAppliedToTransform

bezier_segment_is_approximately_linear(seg, tolerance) ==
    LET u == [in |-> (seg.p1.in * 3 - seg.p0.in * 2) - seg.p3.in,
              out |-> (seg.p1.out * 3 - seg.p0.out * 2) - seg.p3.out]
        ux0 == u.in * u.in
        uy0 == u.out * u.out
        v == [in |-> (seg.p2.in * 3 - seg.p3.in * 2) - seg.p0.in,
              out |-> (seg.p2.out * 3 - seg.p3.out * 2) - seg.p0.out]
        vx == v.in * v.in
        vy == v.out * v.out
        ux == IF ux0 < vx THEN vx ELSE ux0
        uy == IF uy0 < vy THEN vy ELSE uy0
    IN  (ux + uy) <= tolerance

(***************************************************************************)
(* bezier_segment_linearize calls itself, and how deep is the question, so *)
(* a call is a frame of call_frames and runs in steps.  A frame holds the  *)
(* segment it was called with and where it stands: at "enter" it has not   *)
(* run yet, at "left" and at "right" it waits for the call it made on that *)
(* half, at "return" it has returned points (<<>> is NULL, with            *)
(* *out_point_count 0).                                                    *)
(***************************************************************************)
NullPoints == <<>>

LinearizeFrame(seg) == [seg |-> seg, at |-> "enter"]

Returning(frame, points) == [seg |-> frame.seg, at |-> "return", points |-> points]

\* from the top of the function to its first return or first call of itself
linearize_enter(frame, tolerance, alloc_ok) ==
    LET halves == bezier_segment_split_at(frame.seg, UOne \div 2)
    IN  IF bezier_segment_is_approximately_linear(frame.seg, tolerance)
        THEN <<Returning(frame, IF alloc_ok
                                THEN <<frame.seg.p0, frame.seg.p3>>
                                ELSE NullPoints)>>
        ELSE IF ~halves.ok
        THEN <<Returning(frame, NullPoints)>>
        ELSE <<[seg |-> frame.seg, at |-> "left", right |-> halves.right],
               LinearizeFrame(halves.left)>>

\* from the return of the call on the left half to the call on the right
linearize_after_left(frame, left_points) ==
    IF left_points = NullPoints
    THEN <<Returning(frame, NullPoints)>>
    ELSE <<[seg |-> frame.seg, at |-> "right", left_points |-> left_points],
           LinearizeFrame(frame.right)>>

\* from the return of the call on the right half to the end
linearize_after_right(frame, right_points, alloc_ok) ==
    IF right_points = NullPoints \/ ~alloc_ok
    THEN <<Returning(frame, NullPoints)>>
    ELSE <<Returning(frame, frame.left_points \o Tail(right_points))>>

Front(stack) == SubSeq(stack, 1, Len(stack) - 1)
Top(stack) == stack[Len(stack)]

(***************************************************************************)
(* The linearizer as a state machine.  The segments are a single point, a  *)
(* straight line and a bend, all of whose halves down to the depth reached *)
(* are whole 64ths: the point is never flat under a negative tolerance and *)
(* stays a point however often it is halved, the line is flat at once, and *)
(* the bend is flat after two halvings under BendTolerance.                *)
(***************************************************************************)
PointSegment(p) == bezier_segment_init(p, p, p, p, p, p, p, p)
BendSegment(m) ==
    bezier_segment_init(0, 0,
                        SegmentSpan \div 3, m * 2 * (SegmentSpan \div 3),
                        2 * (SegmentSpan \div 3), m * 2 * (SegmentSpan \div 3),
                        SegmentSpan, m * SegmentSpan)
BendTolerance == 9 * OrdinateOne * OrdinateOne
LinearizeInputs ==
    ({PointSegment(p * OrdinateOne) : p \in 0..1}
        \X {0 - OrdinateOne * OrdinateOne, 0, BendTolerance})
    \cup ({LinearSegment(0, SegmentSpan, m) : m \in OutputScales}
            \X {0, BendTolerance})
    \cup ({BendSegment(m) : m \in OutputScales} \X {BendTolerance})

LinearizeInit ==
    /\ call_args \in LinearizeInputs
    /\ call_frames = <<LinearizeFrame(call_args[1])>>
    /\ call_out = NoCall

LinearizeEnter(alloc_ok) ==
    /\ call_frames /= <<>>
    /\ Top(call_frames).at = "enter"
    /\ Len(call_frames) < MaxFrames
    /\ call_frames' = Front(call_frames)
                        \o linearize_enter(Top(call_frames), call_args[2], alloc_ok)
    /\ UNCHANGED <<call_args, call_out, tcVars, treeVars, curveVars>>

LinearizeReturn(alloc_ok) ==
    /\ call_frames /= <<>>
    /\ Top(call_frames).at = "return"
    /\ LET points == Top(call_frames).points
           callers == Front(call_frames)
       IN  IF callers = <<>>
           THEN /\ call_frames' = <<>>
                /\ call_out' = Outcome("bezier_segment_linearize",
                                       Returns(points), FALSE)
           ELSE /\ call_frames' =
                       Front(callers) \o
                       (IF Top(callers).at = "left"
                        THEN linearize_after_left(Top(callers), points)
                        ELSE linearize_after_right(Top(callers), points, alloc_ok))
                /\ UNCHANGED call_out
    /\ UNCHANGED <<call_args, tcVars, treeVars, curveVars>>

LinearizeNext ==
    \/ \E alloc_ok \in BOOLEAN : LinearizeEnter(alloc_ok)
    \/ \E alloc_ok \in BOOLEAN : LinearizeReturn(alloc_ok)

(***************************************************************************)
(* Properties of the linearizer                                            *)
(***************************************************************************)
SuggestedDepthCap == 2 * 16

\* C18: bezier_segment_linearize terminates for every segment and every
\* tolerance, and the depth of its recursion stays under a fixed cap that
\* does not depend on the input (32 is the cap suggested): never are more
\* than that many calls of it in progress.
C18_LinearizeDepthIsCapped == Len(call_frames) <= SuggestedDepthCap

(***************************************************************************)
(* src/src-c/curve/bezier_curve.h: splitting a curve at each ordinate of a *)
(* list.                                                                   *)
(***************************************************************************)
\* <<extents[0], extents[1]>>
bezier_segment_extents(seg) ==
    <<[in |-> ordinate_min(seg.p0.in, seg.p3.in),
       out |-> ordinate_min(seg.p0.out, seg.p3.out)],
      [in |-> ordinate_max(seg.p0.in, seg.p3.in),
       out |-> ordinate_max(seg.p0.out, seg.p3.out)]>>

is_between(ord, min, max) == ord >= min /\ ord <= max

\* u > 0.000001 && u < 1.0 - 0.000001: the margin is less than a quarter
InsideSplitMargin(u) == u > 0 /\ u < UOne

\* the body of the for loop over the ordinates, for the ordinate at ord_idx:
\* whether it reaches the split of seg, that is, neither if fails and
\* bezier_segment_split_at returns true
SplitsSegment(seg, ordinate) ==
    LET extents == bezier_segment_extents(seg)
        u == bezier_segment_findU_input(seg, ordinate)
    IN  /\ is_between(ordinate, extents[1].in, extents[2].in)
        /\ InsideSplitMargin(u)
        /\ bezier_segment_split_at(seg, u).ok

\* the while loop over current_index.  allocs counts the allocations made
\* so far; the one numbered failing_alloc returns NULL (none if that is 0)
RECURSIVE split_at_each_loop(_, _, _, _, _, _)
split_at_each_loop(result_segments, capacity, current_index, ordinates, allocs, failing_alloc) ==
    IF current_index >= Len(result_segments)
    THEN [ret |-> TRUE, written |-> TRUE,
          curve |-> [segments |-> result_segments,
                     segment_count |-> Len(result_segments)]]
    ELSE LET seg == result_segments[current_index + 1]
             hits == {ord_idx \in 1..Len(ordinates) :
                          SplitsSegment(seg, ordinates[ord_idx])}
             ordinate == ordinates[SetMin(hits)]
             halves == bezier_segment_split_at(
                           seg, bezier_segment_findU_input(seg, ordinate))
             grows == Len(result_segments) + 1 >= capacity
             shifted ==
                 SubSeq(result_segments, 1, current_index)
                     \o <<halves.left, halves.right>>
                     \o SubSeq(result_segments, current_index + 2,
                               Len(result_segments))
         IN  IF hits = {}
             THEN split_at_each_loop(result_segments, capacity,
                                     current_index + 1, ordinates, allocs,
                                     failing_alloc)
             ELSE IF grows /\ allocs + 1 = failing_alloc
             THEN [ret |-> FALSE, written |-> FALSE]
             ELSE split_at_each_loop(shifted,
                                     IF grows THEN capacity * 2 ELSE capacity,
                                     current_index, ordinates,
                                     IF grows THEN allocs + 1 ELSE allocs,
                                     failing_alloc)

\* [ret, written, curve]: written tells whether *out_curve was assigned.
\* The realloc that trims the array leaves it as it is when it fails.
bezier_curve_split_at_each_input_ordinate(self, ordinates, failing_alloc) ==
    IF Len(ordinates) = 0
    THEN LET clone == bezier_curve_clone(self, failing_alloc /= 1)
         IN  [ret |-> clone.ret, written |-> TRUE, curve |-> clone.curve]
    ELSE IF failing_alloc = 1
    THEN [ret |-> FALSE, written |-> FALSE]
    ELSE split_at_each_loop(
             [i \in 1..self.segment_count |-> self.segments[i]],
             self.segment_count * 2, 0, ordinates, 1, failing_alloc)

(***************************************************************************)
(* The splitter as a state machine: a curve of the curve model and a list  *)
(* of its quarter points are drawn, and a step calls the function on them. *)
(* A list that names two or more points inside one span names the middle   *)
(* of the span before the others: split in that order every piece has the  *)
(* listed points at its own quarter points, where the parameters found are *)
(* whole quarters.                                                         *)
(***************************************************************************)
OrdinateLists ==
    UNION {[1..n -> InputOrdinates] : n \in 0..MaxOrdinateCount}

SpanOf(x) == x \div SegmentSpan
IsInsideSpan(x) == x % SegmentSpan /= 0
IsMiddleOfSpan(x) == x % SegmentSpan = SegmentSpan \div 2

MiddleFirst(ordinates) ==
    \A j \in 1..Len(ordinates) :
        (IsInsideSpan(ordinates[j]) /\ ~IsMiddleOfSpan(ordinates[j])) =>
            \/ \A i \in 1..Len(ordinates) :
                   (IsInsideSpan(ordinates[i]) /\ SpanOf(ordinates[i]) = SpanOf(ordinates[j]))
                       => ordinates[i] = ordinates[j]
            \/ \E i \in 1..(j - 1) :
                   /\ IsMiddleOfSpan(ordinates[i])
                   /\ SpanOf(ordinates[i]) = SpanOf(ordinates[j])
                   /\ \A k \in 1..(i - 1) :
                          ~(IsInsideSpan(ordinates[k])
                              /\ SpanOf(ordinates[k]) = SpanOf(ordinates[j]))

SplitInit ==
    /\ \E n \in 0..MaxSegments, increasing \in BOOLEAN, m \in OutputScales :
         \E ordinates \in {l \in OrdinateLists : MiddleFirst(l)} :
            call_args = <<bezier_curve_init_from_segments(
                              KnotCurveSegments(n, increasing, m), n, TRUE).curve,
                          ordinates>>
    /\ call_frames = <<>>
    /\ call_out = NoCall

SplitAtEachInputOrdinate(failing_alloc) ==
    /\ call_out' = Outcome("bezier_curve_split_at_each_input_ordinate",
                           Returns(bezier_curve_split_at_each_input_ordinate(
                                       call_args[1], call_args[2], failing_alloc)),
                           FALSE)
    /\ UNCHANGED <<call_args, call_frames, tcVars, treeVars, curveVars>>

SplitNext == \E failing_alloc \in 0..MaxAllocs : SplitAtEachInputOrdinate(failing_alloc)

(***************************************************************************)
(* Properties of the splitter                                              *)
(***************************************************************************)
StrictlyInside(seg, x) ==
    /\ x > ordinate_min(seg.p0.in, seg.p3.in)
    /\ x < ordinate_max(seg.p0.in, seg.p3.in)

Listed(ordinates) == {ordinates[i] : i \in 1..Len(ordinates)}

SplitReturned ==
    /\ call_out.op = "bezier_curve_split_at_each_input_ordinate"
    /\ call_out.value.ret

\* C19: for any curve and any finite list of ordinates, duplicates and
\* ordinates at seams among them, bezier_curve_split_at_each_input_ordinate
\* terminates, and in the curve it returns no listed ordinate lies strictly
\* inside the input range of a segment, and the segments are as many as the
\* original ones plus the distinct listed ordinates that lay strictly inside
\* an original segment.
C19_SplitLeavesNoOrdinateInside ==
    SplitReturned =>
        LET self == call_args[1]
            listed == Listed(call_args[2])
            out == call_out.value.curve
            inside == {x \in listed :
                          \E i \in 1..self.segment_count :
                              StrictlyInside(self.segments[i], x)}
        IN  /\ \A i \in 1..out.segment_count :
                   \A x \in listed : ~StrictlyInside(out.segments[i], x)
            /\ out.segment_count = self.segment_count + Cardinality(inside)

(***************************************************************************)
(* src/src-c/curve/bezier_curve.h: splitting a segment at its critical     *)
(* points.  The extrema and the inflections come from the hodographs       *)
(* library as two Vector2 of floats, wherever the library puts them; they  *)
(* are operands here, counted in quarters like every curve parameter.      *)
(***************************************************************************)
Vector2(x, y) == [x |-> x, y |-> y]

InUnitRange(f) == f >= 0 /\ f <= UOne

\* fabs(split_points[i] - f) < CURVE_EPSILON for some i: two counts of
\* quarters are that close exactly when they are equal
AlreadyAdded(split_points, f) ==
    \E i \in 1..Len(split_points) : split_points[i] = f

\* split_points and split_count as gathered from the roots and inflections
critical_split_points(roots, inflections) ==
    LET s1 == IF InUnitRange(roots.x) THEN <<roots.x>> ELSE <<>>
        s2 == IF InUnitRange(roots.y) /\ roots.y /= roots.x
              THEN Append(s1, roots.y) ELSE s1
        s3 == IF InUnitRange(inflections.x) /\ ~AlreadyAdded(s2, inflections.x)
              THEN Append(s2, inflections.x) ELSE s2
        s4 == IF InUnitRange(inflections.y) /\ inflections.y /= inflections.x
                    /\ ~AlreadyAdded(s3, inflections.y)
              THEN Append(s3, inflections.y) ELSE s3
    IN  s4

\* the two nested for loops that sort split_points into ascending order
RECURSIVE sort_split_points(_)
sort_split_points(split_points) ==
    IF split_points = <<>>
    THEN <<>>
    ELSE LET least == SetMin({split_points[i] : i \in 1..Len(split_points)})
             at == SetMin({i \in 1..Len(split_points) : split_points[i] = least})
         IN  <<least>> \o sort_split_points(
                             SubSeq(split_points, 1, at - 1)
                                 \o SubSeq(split_points, at + 1, Len(split_points)))

NullSegments == [segments |-> <<>>, segment_count |-> 0]

\* (split_points[j] - split_points[i]) / (1.0 - split_points[i])
renormalized(later, split_point) ==
    ExactQuotient((later - split_point) * UOne, UOne - split_point)

\* the loop with every split made on the segment as it was given
RECURSIVE split_on_critical_loop_without_advance(_, _, _, _)
split_on_critical_loop_without_advance(current, split_points, i, result) ==
    IF i > Len(split_points)
    THEN [segments |-> Append(result, current),
          segment_count |-> Len(split_points) + 1]
    ELSE LET halves == bezier_segment_split_at(current, split_points[i])
         IN  IF ~halves.ok
             THEN NullSegments
             ELSE split_on_critical_loop_without_advance(
                      current,
                      [j \in 1..Len(split_points) |->
                          IF j > i
                          THEN renormalized(split_points[j], split_points[i])
                          ELSE split_points[j]],
                      i + 1, Append(result, halves.left))

\* the for loop that splits at each point, and the return after it
RECURSIVE split_on_critical_loop(_, _, _, _)
split_on_critical_loop(current, split_points, i, result) ==
    IF i > Len(split_points)
    THEN [segments |-> Append(result, current),
          segment_count |-> Len(split_points) + 1]
    ELSE LET halves == bezier_segment_split_at(current, split_points[i])
         IN  IF ~halves.ok
             THEN NullSegments
             ELSE split_on_critical_loop(
                      halves.right,
                      [j \in 1..Len(split_points) |->
                          IF j > i
                          THEN renormalized(split_points[j], split_points[i])
                          ELSE split_points[j]],
                      i + 1, Append(result, halves.left))

\* [segments, segment_count]: the array returned (<<>> is NULL) and
\* *out_segment_count
bezier_segment_split_on_critical_points(seg, roots, inflections, alloc_ok) ==
    LET split_points == critical_split_points(roots, inflections)
    IN  IF ~alloc_ok
        THEN NullSegments
        ELSE IF Len(split_points) = 0
        THEN [segments |-> <<seg>>, segment_count |-> 1]
        ELSE split_on_critical_loop(seg, sort_split_points(split_points),
                                    1, <<>>)

(***************************************************************************)
(* The critical point splitter as a state machine: a segment is drawn, a   *)
(* line or a bend, with what the library reports of it, any two pairs of   *)
(* CriticalValues: a parameter below 0, 0, a half, three quarters, 1, or a *)
(* parameter above 1.  Of these every renormalized parameter is a whole    *)
(* number of quarters.  A step calls the function on them.                 *)
(***************************************************************************)
CriticalValues == {0 - 1, 0, UOne \div 2, UOne - 1, UOne, UOne + 1}
CriticalVectors == {Vector2(x, y) : x \in CriticalValues, y \in CriticalValues}

CriticalInit ==
    /\ call_args \in
           ({LinearSegment(0, SegmentSpan, m) : m \in OutputScales}
                \cup {BendSegment(m) : m \in OutputScales})
           \X CriticalVectors \X CriticalVectors
    /\ call_frames = <<>>
    /\ call_out = NoCall

SplitOnCriticalPoints(alloc_ok) ==
    /\ call_out' = Outcome("bezier_segment_split_on_critical_points",
                           Returns(bezier_segment_split_on_critical_points(
                                       call_args[1], call_args[2], call_args[3],
                                       alloc_ok)),
                           FALSE)
    /\ UNCHANGED <<call_args, call_frames, tcVars, treeVars, curveVars>>

CriticalNext == \E alloc_ok \in BOOLEAN : SplitOnCriticalPoints(alloc_ok)

(***************************************************************************)
(* Properties of the critical point splitter                               *)
(***************************************************************************)
CriticalReturnedSegments ==
    /\ call_out.op = "bezier_segment_split_on_critical_points"
    /\ call_out.value.segment_count > 0

\* C20: whenever bezier_segment_split_on_critical_points returns a result
\* that is not empty, it holds between 1 and 5 sub-segments, the p0 of the
\* first is the p0 of the input, the p3 of the last is the p3 of the input,
\* and the p3 of each is the p0 of the next.
C20_CriticalSplitIsChain ==
    CriticalReturnedSegments =>
        LET seg == call_args[1]
            n == call_out.value.segment_count
            out == call_out.value.segments
        IN  /\ n >= 1 /\ n <= 5
            /\ Len(out) = n
            /\ out[1].p0 = seg.p0
            /\ out[n].p3 = seg.p3
            /\ \A i \in 1..(n - 1) : out[i].p3 = out[i + 1].p0

C20_Witness ==
    /\ CriticalReturnedSegments
    /\ call_out.value.segment_count = 3
    /\ call_args[1] = BendSegment(1)

(***************************************************************************)
(* The parameters the splitter hands to bezier_segment_split_at            *)
(***************************************************************************)
\* bezier_segment_split_at goes on past its test of u
SplitAtAccepts(u) == ~(BelowCurveEpsilon(u) \/ u >= UOne)

\* the parameters the for loop tries from split_points[i] on, in order: it
\* stops at the first one that bezier_segment_split_at turns down, and
\* renormalizes the later ones after each split made
RECURSIVE attempted_splits(_, _)
attempted_splits(split_points, i) ==
    IF i > Len(split_points)
    THEN <<>>
    ELSE IF ~SplitAtAccepts(split_points[i])
    THEN <<split_points[i]>>
    ELSE <<split_points[i]>> \o attempted_splits(
                                    [j \in 1..Len(split_points) |->
                                        IF j > i
                                        THEN renormalized(split_points[j],
                                                          split_points[i])
                                        ELSE split_points[j]],
                                    i + 1)

CriticalAttempts ==
    attempted_splits(
        sort_split_points(critical_split_points(call_args[2], call_args[3])), 1)

\* C29: every parameter at which bezier_segment_split_on_critical_points
\* attempts a split, gathered or renormalized, is one that
\* bezier_segment_split_at accepts, so with the allocation granted the
\* function returns a result that is not empty.
C29_AttemptedSplitsAreAccepted ==
    call_out.op = "bezier_segment_split_on_critical_points" =>
        /\ \A k \in 1..Len(CriticalAttempts) : SplitAtAccepts(CriticalAttempts[k])
        /\ bezier_segment_split_on_critical_points(
               call_args[1], call_args[2], call_args[3], TRUE).segment_count > 0

(***************************************************************************)
(* ot_interval_t (src/src/opentime.c)                                      *)
(*                                                                         *)
(* An interval is a start and an end count of rate units (int64_t), a      *)
(* start and an end fraction (float) and a rate (ot_r32_t).  Fractions and *)
(* seconds are counts of 64ths, so 1.0 is FracOne.  The operands are       *)
(* quarters and the rates have numerators and denominators that are powers *)
(* of two (or a zero numerator), for which the float and double arithmetic *)
(* of the code is exact; a quotient that is not whole is the string of     *)
(* ExactQuotient, on which TLC stops.                                      *)
(***************************************************************************)
FracOne == OrdinateOne

ot_interval(start, end, start_frac, end_frac, rate) ==
    [start |-> start, end |-> end, start_frac |-> start_frac,
     end_frac |-> end_frac, rate |-> rate]

ot_invalid_interval == ot_interval(0, 0, 0, 0, r32(0, 0))

ot_r32_equal(lh, rh) == lh.num = rh.num /\ lh.den = rh.den

ot_r32_equivalent(lh, rh) ==
    LET a == ot_r32_normalize(lh)
        b == ot_r32_normalize(rh)
    IN  a.num = b.num /\ a.den = b.den

\* t is never NULL here
ot_interval_is_valid(t) ==
    IF t.rate.den = 0 \/ t.end < t.start THEN FALSE
    ELSE IF t.start = t.end /\ t.start_frac >= t.end_frac THEN FALSE
    ELSE TRUE

\* the two while loops that carry whole units of a fraction into its count
RECURSIVE carry_fraction(_, _)
carry_fraction(count, frac) ==
    IF frac < 0 THEN carry_fraction(count - 1, frac + FracOne)
    ELSE IF frac >= FracOne THEN carry_fraction(count + 1, frac - FracOne)
    ELSE [count |-> count, frac |-> frac]

ot_interval_normalize(t) ==
    IF t.rate.den = 0 THEN ot_invalid_interval
    ELSE LET start == carry_fraction(t.start, t.start_frac)
             end == carry_fraction(t.end, t.end_frac)
         IN  ot_interval(start.count, end.count, start.frac, end.frac,
                         ot_r32_normalize(t.rate))

\* end_frac is multiplied by 1.f, not by -1.f
ot_interval_additive_inverse(f) ==
    ot_interval_normalize(
        ot_interval(0 - f.start, 0 - f.end, 0 - f.start_frac, f.end_frac,
                    f.rate))

\* called on a valid interval only: the returns of NAN and of an infinity
\* are not taken
ot_interval_start_as_seconds(t) ==
    ExactQuotient((t.start * FracOne + t.start_frac) * t.rate.num, t.rate.den)

\* end_frac is added to the seconds, not to the count
ot_interval_end_as_seconds(t) ==
    ExactQuotient(t.end * FracOne * t.rate.num, t.rate.den) + t.end_frac

\* t * rate.den / rate.num with rate.num 0 is an infinity or a NaN, and the
\* conversion of either to int64_t is undefined
ConvertsNonFinite == [undefined |-> TRUE]

\* t1 and t2 are finite here
ot_interval_at_seconds2(t1, t2, rate) ==
    IF rate.num /= 0 /\ rate.den = 0
    THEN Returns(ot_interval(IF t1 >= 0 THEN 1 ELSE 0 - 1, 0, 0, 0, r32(1, 0)))
    ELSE IF rate.num = 0 /\ rate.den = 0
    THEN Returns(ot_interval(IF t1 >= 0 THEN 1 ELSE 0 - 1, 0, 0, 0, r32(0, 0)))
    ELSE IF rate.num = 0 THEN ConvertsNonFinite
    ELSE LET start_rate == ExactQuotient(t1 * rate.den, rate.num)
             end_rate == ExactQuotient(t2 * rate.den, rate.num)
         IN  Returns(ot_interval(start_rate \div FracOne, end_rate \div FracOne,
                                 start_rate % FracOne, end_rate % FracOne,
                                 rate))

ot_interval_conform(i, rate) ==
    IF ~ot_interval_is_valid(i) THEN Returns(ot_invalid_interval)
    ELSE IF ot_r32_equal(i.rate, rate) THEN Returns(i)
    ELSE IF ot_r32_equivalent(i.rate, rate)
    THEN Returns([i EXCEPT !.rate = rate])
    ELSE ot_interval_at_seconds2(ot_interval_start_as_seconds(i),
                                 ot_interval_end_as_seconds(i), rate)

\* t and addend are never NULL here
ot_interval_add(t, addend) ==
    IF ~ot_interval_is_valid(t) \/ addend.rate.den = 0
    THEN Returns(ot_invalid_interval)
    ELSE LET an == ot_interval_conform(addend, t.rate)
         IN  IF an.undefined THEN ConvertsNonFinite
             ELSE Returns(ot_interval_normalize(
                      ot_interval(t.start + an.value.start,
                                  t.end + an.value.end,
                                  t.start_frac + an.value.start_frac,
                                  t.end_frac + an.value.end_frac,
                                  t.rate)))

(***************************************************************************)
(* State machine of ot_interval_add                                        *)
(*                                                                         *)
(* call_args is the pair of t and the addend.  OtIntervalAdditiveInverse   *)
(* replaces the addend by its additive inverse; OtIntervalAdd calls        *)
(* ot_interval_add on the pair.                                            *)
(***************************************************************************)
Quarter == FracOne \div 4
OtCounts == (0 - MaxCount)..MaxCount
OtRates == {r32(1, 1), r32(1, 2), r32(2, 4), r32(0, 1), r32(1, 0)}
OtTargets ==
    {ot_interval(s, e, sf * Quarter, ef * Quarter, r) :
        s \in OtCounts, e \in OtCounts, sf \in {0, 3}, ef \in {0, 3},
        r \in OtRates}
OtAddends ==
    {ot_interval(s, e, sf * Quarter, ef * Quarter, r) :
        s \in OtCounts, e \in OtCounts, sf \in {0 - 1, 0, 3},
        ef \in {0 - 1, 0, 3}, r \in OtRates}

OtAddInit ==
    /\ call_args \in OtTargets \X OtAddends
    /\ call_frames = <<>>
    /\ call_out = NoCall

OtIntervalAdditiveInverse ==
    /\ call_out = NoCall
    /\ call_args' =
           <<call_args[1], ot_interval_additive_inverse(call_args[2])>>
    /\ UNCHANGED <<call_frames, call_out, tcVars, treeVars, curveVars>>

OtIntervalAdd ==
    /\ call_out' = Outcome("ot_interval_add",
                           ot_interval_add(call_args[1], call_args[2]), FALSE)
    /\ UNCHANGED <<call_args, call_frames, tcVars, treeVars, curveVars>>

OtAddNext == OtIntervalAdditiveInverse \/ OtIntervalAdd

(***************************************************************************)
(* Properties of ot_interval_add                                           *)
(***************************************************************************)
AddCalledOnValid ==
    /\ call_out.op = "ot_interval_add"
    /\ ot_interval_is_valid(call_args[1])
    /\ call_args[2].rate.den /= 0

IsFraction(frac) == frac >= 0 /\ frac < FracOne

\* C21: for every valid interval t and every addend with a rate denominator
\* that is not zero, ot_interval_add returns an interval whose start_frac
\* and end_frac both lie in [0, 1).
C21_AddIsNormalized ==
    AddCalledOnValid =>
        /\ call_out.defined
        /\ IsFraction(call_out.value.start_frac)
        /\ IsFraction(call_out.value.end_frac)

AddendAtRateOfTarget ==
    /\ AddCalledOnValid
    /\ ot_r32_equivalent(call_args[2].rate, call_args[1].rate)

SumOfCounts(t, addend) ==
    ot_interval_normalize(
        ot_interval(t.start + addend.start, t.end + addend.end,
                    t.start_frac + addend.start_frac,
                    t.end_frac + addend.end_frac, t.rate))

\* C28: ot_interval_add accepts an addend that is not an increasing interval
\* as long as its rate denominator is not zero: for a valid t and any addend
\* at a rate equivalent to that of t, increasing or not, the result is t with
\* the start and end counts and fractions of the addend added, normalized.
C28_AddAcceptsAnyAddend ==
    AddendAtRateOfTarget =>
        /\ call_out.defined
        /\ call_out.value = SumOfCounts(call_args[1], call_args[2])

(***************************************************************************)
(* ot_project (src/src/opentime.c)                                         *)
(***************************************************************************)
ot_operator(slope, offset, offset_frac, offset_rate) ==
    [slope |-> slope, offset |-> offset, offset_frac |-> offset_frac,
     offset_rate |-> offset_rate]

\* t and op are never NULL here and the tag of op is ot_op_affine_transform,
\* the one tag there is.  The start is multiplied by slope.num and divided
\* by slope.den; the end is multiplied by slope.num and multiplied by
\* slope.den.
ot_project(t, op) ==
    IF ~ot_interval_is_valid(t) THEN Returns(ot_invalid_interval)
    ELSE IF ot_r32_equivalent(t.rate, op.offset_rate)
    THEN IF op.slope.den = 0 THEN DividesByZero
         ELSE Returns(ot_interval_normalize(
                  ot_interval(
                      Int32Div((t.start - op.offset) * op.slope.num,
                               op.slope.den),
                      ((t.end - op.offset) * op.slope.num) * op.slope.den,
                      t.start_frac - op.offset_frac,
                      t.end_frac - op.offset_frac,
                      t.rate)))
    ELSE Returns(ot_invalid_interval)

(***************************************************************************)
(* State machine of ot_project: call_args is the pair of t and op          *)
(***************************************************************************)
OtSlopes ==
    {r32(1, 1), r32(1, 2), r32(2, 1), r32(3, 2), r32(0 - 1, 1), r32(1, 0)}
OtOperators ==
    {ot_operator(slope, offset, offset_frac * Quarter, offset_rate) :
        slope \in OtSlopes, offset \in OtCounts, offset_frac \in {0, 1},
        offset_rate \in {r32(1, 1), r32(1, 2), r32(2, 4)}}

OtProjectInit ==
    /\ call_args \in OtTargets \X OtOperators
    /\ call_frames = <<>>
    /\ call_out = NoCall

OtProject(traps) ==
    /\ call_out' = Outcome("ot_project",
                           ot_project(call_args[1], call_args[2]), traps)
    /\ UNCHANGED <<call_args, call_frames, tcVars, treeVars, curveVars>>

OtProjectNext == \E traps \in BOOLEAN : OtProject(traps)

(***************************************************************************)
(* Properties of ot_project                                                *)
(***************************************************************************)
ProjectCalledAtRate ==
    /\ call_out.op = "ot_project"
    /\ ot_interval_is_valid(call_args[1])
    /\ ot_r32_equivalent(call_args[1].rate, call_args[2].offset_rate)
    /\ call_args[2].slope.den > 0

\* (count - offset) * slope, truncated toward zero as the code divides
AffineCount(count, op) ==
    Int32Div((count - op.offset) * op.slope.num, op.slope.den)

\* C27: for a valid interval t and an operator whose offset rate is
\* equivalent to the rate of t, ot_project maps both endpoints through the
\* same affine map: the start count of the result is (start - offset) * slope
\* and the end count is (end - offset) * slope, each with the whole units of
\* its fraction carried into it.
C27_ProjectMapsBothEndpoints ==
    ProjectCalledAtRate =>
        LET t == call_args[1]
            op == call_args[2]
        IN  /\ call_out.defined
            /\ call_out.value.start =
                   carry_fraction(AffineCount(t.start, op),
                                  t.start_frac - op.offset_frac).count
            /\ call_out.value.end =
                   carry_fraction(AffineCount(t.end, op),
                                  t.end_frac - op.offset_frac).count

(***************************************************************************)
(* State machine of bezier_find_u                                          *)
(*                                                                         *)
(* call_args is <<x, p1, p2, p3>>: a cubic in shifted form (p0 = 0) whose  *)
(* control values do not decrease, and an ordinate.  Control values are    *)
(* multiples of four whole ordinates.  An x strictly inside (0, p3) is     *)
(* drawn only for the cubic that is linear in u, at its quarter points,    *)
(* where the first regula falsi step lands on the root.                    *)
(***************************************************************************)
ControlValues == {k * UOne * OrdinateOne : k \in 0..MaxControl}
FindUOrdinates == {k * OrdinateOne : k \in (0 - UOne)..((MaxControl + 1) * UOne)}

IsLinearInU(p1, p2, p3) == 3 * p1 = p3 /\ 3 * p2 = 2 * p3

FindUInputs ==
    {<<x, p1, p2, p3>> :
        x \in FindUOrdinates, p1 \in ControlValues, p2 \in ControlValues,
        p3 \in ControlValues}

FindUInit ==
    /\ call_args \in
           {a \in FindUInputs :
               /\ a[2] <= a[3] /\ a[3] <= a[4]
               /\ \/ a[1] <= 0
                  \/ a[1] >= a[4]
                  \/ IsLinearInU(a[2], a[3], a[4]) /\ (UOne * a[1]) % a[4] = 0}
    /\ call_frames = <<>>
    /\ call_out = NoCall

FindU ==
    /\ call_out' = Outcome("bezier_find_u",
                           Returns(bezier_find_u(call_args[1], call_args[2],
                                                 call_args[3], call_args[4])),
                           FALSE)
    /\ UNCHANGED <<call_args, call_frames, tcVars, treeVars, curveVars>>

FindUNext == FindU

(***************************************************************************)
(* Properties of bezier_find_u                                             *)
(***************************************************************************)
FindUReturned == call_out.op = "bezier_find_u"

FindUAtBoundaries ==
    /\ call_args[1] = 0 => call_out.value = 0
    /\ call_args[1] = call_args[4] => call_out.value = UOne

\* C22 as stated: for every monotone cubic in shifted form with p3 >= 0,
\* bezier_find_u returns exactly 0 for x = 0 and exactly 1 for x = p3.
C22_FindUBoundaries == FindUReturned => FindUAtBoundaries

\* C22 amended: for every monotone cubic in shifted form with p3 > 0,
\* bezier_find_u returns exactly 0 for x = 0 and exactly 1 for x = p3; with
\* p3 = 0 the ordinate 0 is both, and it returns 0.
C22_FindUBoundariesOfProperCubic ==
    (FindUReturned /\ call_args[4] > 0) => FindUAtBoundaries

C22_Witness ==
    /\ FindUReturned
    /\ call_args[4] > 0
    /\ call_args[1] = call_args[4]
    /\ ~IsLinearInU(call_args[2], call_args[3], call_args[4])
    /\ call_out.value = UOne

TcIdle == [k \in Slots |-> treecode_init]
CurveIdle == /\ curve = bezier_curve_init /\ curve_out = NoCurveCall

TreeIdle ==
    /\ tree = binary_tree_init /\ tree_puts = [l \in Labels |-> NeverPut]
    /\ path_out = NoPath

TcSpecInit ==
    /\ TcInit
    /\ TreeIdle
    /\ CurveIdle
    /\ CallIdle

TcSpec == TcSpecInit /\ [][TcNext]_vars

TcSlotsIdle ==
    tcs = TcIdle /\ tc_steps = [k \in Slots |-> <<>>] /\ tc_failed = [k \in Slots |-> FALSE]

BtIdle ==
    /\ TcSlotsIdle
    /\ CurveIdle
    /\ CallIdle

\* the tree that starts empty
BtSpecInit == BtInit(FALSE) /\ BtIdle

BtSpec == BtSpecInit /\ [][BtNext]_vars

\* the tree that starts as the chain of left children
BtChainSpecInit == BtInit(TRUE) /\ BtIdle

BtChainSpec == BtChainSpecInit /\ [][BtNext]_vars

CurveSpecInit ==
    /\ CurveInit
    /\ TcSlotsIdle
    /\ TreeIdle
    /\ CallIdle

CurveSpec == CurveSpecInit /\ [][CurveNext]_vars

R32SpecInit == R32Init /\ TcSlotsIdle /\ TreeIdle /\ CurveIdle
R32Spec == R32SpecInit /\ [][R32Next]_vars

IntervalSpecInit == IntervalInit /\ TcSlotsIdle /\ TreeIdle /\ CurveIdle
IntervalSpec == IntervalSpecInit /\ [][IntervalNext]_vars

AffineSpecInit == AffineInit /\ TcSlotsIdle /\ TreeIdle /\ CurveIdle
AffineSpec == AffineSpecInit /\ [][AffineNext]_vars

LinearizeSpecInit == LinearizeInit /\ TcSlotsIdle /\ TreeIdle /\ CurveIdle
LinearizeSpec == LinearizeSpecInit /\ [][LinearizeNext]_vars

SplitSpecInit == SplitInit /\ TcSlotsIdle /\ TreeIdle /\ CurveIdle
SplitSpec == SplitSpecInit /\ [][SplitNext]_vars

CriticalSpecInit == CriticalInit /\ TcSlotsIdle /\ TreeIdle /\ CurveIdle
CriticalSpec == CriticalSpecInit /\ [][CriticalNext]_vars

OtAddSpecInit == OtAddInit /\ TcSlotsIdle /\ TreeIdle /\ CurveIdle
OtAddSpec == OtAddSpecInit /\ [][OtAddNext]_vars

OtProjectSpecInit == OtProjectInit /\ TcSlotsIdle /\ TreeIdle /\ CurveIdle
OtProjectSpec == OtProjectSpecInit /\ [][OtProjectNext]_vars

FindUSpecInit == FindUInit /\ TcSlotsIdle /\ TreeIdle /\ CurveIdle
FindUSpec == FindUSpecInit /\ [][FindUNext]_vars

ComposeSpecInit == ComposeInit /\ TcSlotsIdle /\ TreeIdle /\ CurveIdle
ComposeSpec == ComposeSpecInit /\ [][ComposeNext]_vars
====
